---- MODULE Spec2Model ----
(***************************************************************************)
(* WhatsApp chat analyzer: the identity resolver (get_contact_name), the   *)
(* message-type classification (ingestion mapping and distribution), the   *)
(* general statistics, the contact ranking, the response times, the        *)
(* conversation and keyword extraction, the time rollups, the group        *)
(* statistics, the word frequencies and the per-chat details of            *)
(* src/analyzer.py and src/database_reader.py, and the run of the          *)
(* application of src/main.py with the connections of its reader.          *)
(*                                                                         *)
(* A datetime is a number of ticks since 1970-01-01 00:00, TicksPerDay of  *)
(* them to the day; the float64 response times are taken on tables whose   *)
(* datetimes count seconds.  An operation that pandas leaves open (the     *)
(* order of equal sort keys) gives a set of possible results.              *)
(*                                                                         *)
(* Strings are sequences of tokens: "@" and "+" are single characters, a   *)
(* domain word such as "lid" or "s.whatsapp.net" is one token, so that     *)
(* Python's substring test, split('@') and startswith('+') are computed on *)
(* the sequence; words and keywords are sequences of characters.  A        *)
(* nullable cell (None / NaN / NaT) is a sequence of length at most one:   *)
(* <<>> is null, <<v>> holds v.                                            *)
(***************************************************************************)
EXTENDS Integers, Sequences, FiniteSets, TLC

VARIABLES
    msgstore,   \* rows of the message store's message table (with the joined chat jid)
    messages_df, \* the caller's message table, handed to the constructor: [cols, rows]
    messages,   \* WhatsAppAnalyzer.messages: [loaded, cols, rows]
    contacts,   \* WhatsAppAnalyzer.contacts, the caller's table itself: [cols, rows]
    groups,     \* WhatsAppAnalyzer.groups, the caller's table itself
    media,      \* WhatsAppAnalyzer.media, the caller's table itself
    lid_map,    \* WhatsAppAnalyzer.lid_map, the caller's table itself: [cols, rows]
    last,       \* the last call made on the analyzer: [op, arg, raised, value]
    app         \* WhatsAppAnalyzerApp.run and its reader: where the run stands

vars == <<msgstore, messages_df, messages, contacts, groups, media, lid_map, last, app>>

-----------------------------------------------------------------------------
(* Bounds of the model *)

MaxContacts == 1
MaxAliases == 1
MaxMsgs == 2
MaxRawMsgs == 1
MaxMediaType == 21
MaxRawType == 44
MaxTime == 2
TicksPerDay == 2

-----------------------------------------------------------------------------
(* Nullable cells and Python string operations *)

None == <<>>
Some(v) == <<v>>
IsNa(x) == x = None
Val(x) == x[1]

\* pattern in s
Contains(s, pat) ==
    \E i \in 1..(Len(s) - Len(pat) + 1) : SubSeq(s, i, i + Len(pat) - 1) = pat

\* s.split('@')[0]
SplitAtFirst(s) ==
    IF \E i \in 1..Len(s) : s[i] = "@"
    THEN LET k == CHOOSE i \in 1..Len(s) : s[i] = "@" /\ \A j \in 1..(i - 1) : s[j] # "@"
         IN SubSeq(s, 1, k - 1)
    ELSE s

\* s.startswith('+')
StartsWithPlus(s) == Len(s) > 0 /\ s[1] = "+"

RECURSIVE LStrip(_)
LStrip(s) == IF Len(s) > 0 /\ s[1] = " " THEN LStrip(Tail(s)) ELSE s

RECURSIVE RStrip(_)
RStrip(s) ==
    IF Len(s) > 0 /\ s[Len(s)] = " " THEN RStrip(SubSeq(s, 1, Len(s) - 1)) ELSE s

\* s.strip()
Strip(s) == RStrip(LStrip(s))

\* DataFrame.empty
Empty(df) == df.cols = {} \/ df.rows = <<>>

AT == <<"@">>
LidMarker == <<"@", "lid">>
DirectMarker == <<"@", "s.whatsapp.net">>
GroupMarker == <<"@", "g.us">>
Unknown == <<"Bilinmeyen">>

-----------------------------------------------------------------------------
(* The call record *)

NoCall == [op |-> "none", arg |-> None, raised |-> "", value |-> None]
Returned(op, arg, v) == [op |-> op, arg |-> arg, raised |-> "", value |-> v]
Raised(op, arg, e) == [op |-> op, arg |-> arg, raised |-> e, value |-> None]

\* no run of the application under way
NoApp == [pc |-> "idle"]

-----------------------------------------------------------------------------
(* WhatsAppAnalyzer.get_contact_name *)

\* an alias map that is never consulted
TranslateLid_Untranslated(chat_id) == Some(chat_id)

\* lines 50-55: the alias translation; the result is a nullable cell
TranslateLid(chat_id) ==
    IF Contains(chat_id, LidMarker) /\ ~Empty(lid_map)
       /\ "lid_jid" \in lid_map.cols /\ "normal_jid" \in lid_map.cols
    THEN LET lid_row == SelectSeq(lid_map.rows, LAMBDA r : r.lid_jid = Some(chat_id))
         IN IF lid_row # <<>> THEN lid_row[1].normal_jid ELSE Some(chat_id)
    ELSE Some(chat_id)

\* line 63 / 67: if name and name != 'None' and name.strip()
UsableName(name) == name # <<>> /\ name # <<"None">> /\ Strip(name) # <<>>

\* lines 58-68: the contact lookup; None when no name is returned
ContactLookup(jid) ==
    IF ~Empty(contacts) /\ "jid" \in contacts.cols
    THEN LET contact == SelectSeq(contacts.rows, LAMBDA r : ~IsNa(jid) /\ r.jid = jid)
         IN IF contact = <<>> THEN None
            ELSE IF "display_name" \in contacts.cols /\ ~IsNa(contact[1].display_name)
                 THEN IF UsableName(Val(contact[1].display_name))
                      THEN contact[1].display_name
                      ELSE None
                 ELSE IF "given_name" \in contacts.cols /\ ~IsNa(contact[1].given_name)
                      THEN IF UsableName(Val(contact[1].given_name))
                           THEN contact[1].given_name
                           ELSE None
                      ELSE None
    ELSE None

\* a '+' put in front without looking at the local part
FormatPhone_AlwaysPlus(chat_id) == <<"+">> \o SplitAtFirst(chat_id)

\* lines 72-76 and 80-83
FormatPhone(chat_id) ==
    LET phone == SplitAtFirst(chat_id)
    IN IF ~StartsWithPlus(phone) THEN <<"+">> \o phone ELSE phone

\* an untranslated alias formatted as if it were a phone number
FormatIdentifier_LidAsPhone(chat_id, original_chat_id) ==
    IF Contains(chat_id, DirectMarker) \/ Contains(original_chat_id, LidMarker)
    THEN <<"+">> \o SplitAtFirst(chat_id)
    ELSE SplitAtFirst(chat_id)

\* lines 70-89, for a translated identifier that is a string
FormatIdentifier(chat_id, original_chat_id) ==
    IF Contains(chat_id, DirectMarker) THEN FormatPhone(chat_id)
    ELSE IF Contains(original_chat_id, LidMarker)
         THEN IF chat_id # original_chat_id /\ Contains(chat_id, DirectMarker)
              THEN FormatPhone(chat_id)
              ELSE SplitAtFirst(original_chat_id)
         ELSE IF Contains(chat_id, AT) THEN SplitAtFirst(chat_id)
              ELSE chat_id

\* the whole method; arg is a nullable cell, the result a call record
get_contact_name(arg) ==
    IF IsNa(arg) THEN Returned("get_contact_name", arg, Unknown)
    ELSE LET original_chat_id == Val(arg)
             chat_id == TranslateLid(original_chat_id)
             name == ContactLookup(chat_id)
         IN IF ~IsNa(name) THEN Returned("get_contact_name", arg, Val(name))
            \* line 71: '@s.whatsapp.net' in chat_id, with chat_id None
            ELSE IF IsNa(chat_id) THEN Raised("get_contact_name", arg, "TypeError")
            ELSE Returned("get_contact_name", arg,
                          FormatIdentifier(Val(chat_id), original_chat_id))

-----------------------------------------------------------------------------
(* WhatsAppAnalyzer.get_message_type_distribution *)

Categories == {"Text", "Image", "Video", "Audio", "Document", "Sticker",
               "Location", "Contact", "GIF", "Other"}

\* lines 135-146
ZeroDistribution == [c \in Categories |-> 0]

\* lines 166-185: the if / elif chain on one row's media_type
Category_AudioVideoSwapped(media_type) ==
    IF IsNa(media_type) \/ Val(media_type) = 0 THEN "Text"
    ELSE IF Val(media_type) = 1 THEN "Image"
    ELSE IF Val(media_type) = 2 THEN "Video"
    ELSE IF Val(media_type) = 3 THEN "Audio"
    ELSE IF Val(media_type) = 4 THEN "Contact"
    ELSE IF Val(media_type) = 5 THEN "Location"
    ELSE IF Val(media_type) = 13 THEN "GIF"
    ELSE IF Val(media_type) = 20 THEN "Sticker"
    ELSE IF Val(media_type) = 9 THEN "Document"
    ELSE "Other"

Category_NullAsOther(media_type) ==
    IF ~IsNa(media_type) /\ Val(media_type) = 0 THEN "Text"
    ELSE IF ~IsNa(media_type) /\ Val(media_type) = 1 THEN "Image"
    ELSE IF ~IsNa(media_type) /\ Val(media_type) = 2 THEN "Audio"
    ELSE IF ~IsNa(media_type) /\ Val(media_type) = 3 THEN "Video"
    ELSE IF ~IsNa(media_type) /\ Val(media_type) = 4 THEN "Contact"
    ELSE IF ~IsNa(media_type) /\ Val(media_type) = 5 THEN "Location"
    ELSE IF ~IsNa(media_type) /\ Val(media_type) = 13 THEN "GIF"
    ELSE IF ~IsNa(media_type) /\ Val(media_type) = 20 THEN "Sticker"
    ELSE IF ~IsNa(media_type) /\ Val(media_type) = 9 THEN "Document"
    ELSE "Other"

Category(media_type) ==
    IF IsNa(media_type) \/ Val(media_type) = 0 THEN "Text"
    ELSE IF Val(media_type) = 1 THEN "Image"
    ELSE IF Val(media_type) = 2 THEN "Audio"
    ELSE IF Val(media_type) = 3 THEN "Video"
    ELSE IF Val(media_type) = 4 THEN "Contact"
    ELSE IF Val(media_type) = 5 THEN "Location"
    ELSE IF Val(media_type) = 13 THEN "GIF"
    ELSE IF Val(media_type) = 20 THEN "Sticker"
    ELSE IF Val(media_type) = 9 THEN "Document"
    ELSE "Other"

\* lines 163-185: the loop over the rows
RECURSIVE Tally(_, _)
Tally(rows, distribution) ==
    IF rows = <<>> THEN distribution
    ELSE Tally(Tail(rows),
               [distribution EXCEPT ![Category(Head(rows).media_type)] = @ + 1])

\* the whole method
get_message_type_distribution ==
    IF "media_type" \notin messages.cols
    THEN Returned("get_message_type_distribution", None,
                  [ZeroDistribution EXCEPT !["Text"] = Len(messages.rows)])
    ELSE Returned("get_message_type_distribution", None,
                  Tally(messages.rows, ZeroDistribution))

-----------------------------------------------------------------------------
(* WhatsAppDatabaseReader.get_messages and WhatsAppAnalyzer.__init__ *)

\* lines 134-151: type_map
type_map ==
    (0 :> 0) @@ (1 :> 1) @@ (2 :> 2) @@ (3 :> 3) @@ (4 :> 4) @@ (5 :> 5)
    @@ (7 :> 9) @@ (8 :> 2) @@ (9 :> 9) @@ (13 :> 13) @@ (14 :> 2) @@ (15 :> 1)
    @@ (20 :> 20) @@ (26 :> 3) @@ (42 :> 9) @@ (43 :> 9)

\* a mapping that leaves the voice-note code 14 unaliased
map_message_type_VoiceNoteUnmapped(msg_type) ==
    IF IsNa(msg_type) THEN 0
    ELSE IF Val(msg_type) = 14 THEN 14
    ELSE IF Val(msg_type) \in DOMAIN type_map THEN type_map[Val(msg_type)] ELSE 0

\* _map_message_type_to_media: type_map.get(int(msg_type), 0)
map_message_type_to_media(msg_type) ==
    IF IsNa(msg_type) THEN 0
    ELSE IF Val(msg_type) \in DOMAIN type_map THEN type_map[Val(msg_type)] ELSE 0

\* line 107: str.contains('@g.us', na=False); the pattern is a regular
\* expression, so its '.' stands for any character
GroupPatternTokens == {"g.us", "g_us"}
is_group_of(chat_jid) ==
    /\ ~IsNa(chat_jid)
    /\ \E i \in 1..(Len(Val(chat_jid)) - 1) :
          Val(chat_jid)[i] = "@" /\ Val(chat_jid)[i + 1] \in GroupPatternTokens

\* line 104: pd.to_datetime(unit='ms', errors='coerce'): null and
\* unrepresentable timestamps become NaT
to_datetime(timestamp) ==
    IF IsNa(timestamp) \/ Val(timestamp) > MaxTime THEN None ELSE timestamp

\* ORDER BY m.timestamp ASC: NULL sorts first, the order of ties is not fixed
TimestampLeq(a, b) == IsNa(a) \/ (~IsNa(b) /\ Val(a) <= Val(b))
OrderByTimestamp(rows) ==
    LET n == Len(rows)
        perms == {p \in [1..n -> 1..n] :
                    /\ \A i, j \in 1..n : i # j => p[i] # p[j]
                    /\ \A i, j \in 1..n :
                          i < j => TimestampLeq(rows[p[i]].timestamp, rows[p[j]].timestamp)}
    IN {[i \in 1..n |-> rows[p[i]]] : p \in perms}

\* the columns of the query and the derived ones; a row of the model carries
\* the cells the operations below read
MessageCols == {"message_id", "chat_row_id", "from_me", "timestamp", "message_text",
                "message_type", "status", "chat_jid", "datetime", "is_group",
                "chat_id", "media_type"}

\* lines 101-111: one row of the query result with the derived columns
ReadRow(m) ==
    [message_id |-> m.message_id, from_me |-> m.from_me,
     timestamp |-> m.timestamp, message_text |-> m.message_text,
     message_type |-> m.message_type,
     datetime |-> to_datetime(m.timestamp),
     is_group |-> is_group_of(m.chat_jid),
     chat_id |-> m.chat_jid,
     media_type |-> Some(map_message_type_to_media(m.message_type)),
     date |-> None, month |-> None, hour |-> None, day_of_week |-> None]

\* the tables get_messages can return for a message store
reader_get_messages(db) ==
    LET selected == SelectSeq(db, LAMBDA m : m.chat_row_id > 0)
    IN {[cols |-> MessageCols, rows |-> [i \in 1..Len(rs) |-> ReadRow(rs[i])]] :
          rs \in OrderByTimestamp(selected)}

\* analyzer.py lines 26-40: the copy of the table with the date columns
DateCols == {"date", "year", "month", "day", "hour", "day_of_week", "day_name"}
\* a datetime is a number of ticks since 1970-01-01 00:00, a Thursday
DateOf(datetime) == IF IsNa(datetime) THEN None ELSE Some(Val(datetime) \div TicksPerDay)
\* dt.hour
HourOf(datetime) ==
    IF IsNa(datetime) THEN None
    ELSE Some(((Val(datetime) % TicksPerDay) * 24) \div TicksPerDay)
\* dt.dayofweek: Monday is 0
DayOfWeekOf(datetime) ==
    IF IsNa(datetime) THEN None ELSE Some(((Val(datetime) \div TicksPerDay) + 3) % 7)
\* dt.to_period('M'): the number of the month since 1970-01, for the first
\* three months of 1970
PeriodOf(datetime) ==
    IF IsNa(datetime) THEN None
    ELSE LET d == Val(datetime) \div TicksPerDay
         IN Some(IF d < 31 THEN 0 ELSE IF d < 59 THEN 1 ELSE 2)
\* lines 33-40: the date columns written on self.messages
DateColumns(df) ==
    [cols |-> IF "datetime" \in df.cols THEN df.cols \cup DateCols ELSE df.cols,
     rows |-> IF "datetime" \in df.cols
              THEN [i \in 1..Len(df.rows) |->
                      [df.rows[i] EXCEPT !.date = DateOf(df.rows[i].datetime),
                                         !.month = PeriodOf(df.rows[i].datetime),
                                         !.hour = HourOf(df.rows[i].datetime),
                                         !.day_of_week = DayOfWeekOf(df.rows[i].datetime)]]
              ELSE df.rows]

\* a constructor that keeps the caller's table itself
AnalyzerInit_NoCopy(df) ==
    [loaded |-> TRUE, copied |-> FALSE,
     cols |-> DateColumns(df).cols, rows |-> DateColumns(df).rows]

\* line 26: self.messages is a copy of the caller's table
AnalyzerInit(df) ==
    [loaded |-> TRUE, copied |-> TRUE,
     cols |-> DateColumns(df).cols, rows |-> DateColumns(df).rows]

\* the caller's table after a write on self.messages: the write reaches it
\* only when self.messages is the caller's table itself
CallerTable(df, m) == IF m.copied THEN df ELSE [cols |-> m.cols, rows |-> m.rows]

-----------------------------------------------------------------------------
(* WhatsAppAnalyzer.get_general_statistics *)

Indices(rows) == 1..Len(rows)
Max(S) == CHOOSE x \in S : \A y \in S : y <= x
Min(S) == CHOOSE x \in S : \A y \in S : x <= y

\* Series.nunique(): the distinct non-null values
NUnique(rows, col) == Cardinality({rows[i][col] : i \in Indices(rows)} \ {None})

\* line 98: media_type.notna() & (media_type > 0)
IsMedia(m) == ~IsNa(m.media_type) /\ Val(m.media_type) > 0

\* line 102: the distinct chat_id values of the rows with is_group == True
GroupChats(rows) == {rows[i].chat_id : i \in {j \in Indices(rows) : rows[j].is_group}}

\* line 110: datetime.dropna()
ValidDates(rows) ==
    {Val(rows[i].datetime) : i \in {j \in Indices(rows) : ~IsNa(rows[j].datetime)}}

\* strftime('%Y-%m-%d %H:%M:%S')
Strftime(t) == <<"%Y-%m-%d %H:%M:%S", t>>

\* a span that counts both end days
DaysBetween_Inclusive(first, latest) ==
    (latest \div TicksPerDay) - (first \div TicksPerDay) + 1

\* line 114: (valid_dates.max() - valid_dates.min()).days, the whole days of
\* the difference
DaysBetween(first, latest) == (latest - first) \div TicksPerDay

\* lines 109-118
DateStatistics(rows) ==
    LET valid_dates == ValidDates(rows)
    IN IF valid_dates # {}
       THEN ("first_message_date" :> Strftime(Min(valid_dates)))
            @@ ("last_message_date" :> Strftime(Max(valid_dates)))
            @@ ("date_range_days" :> DaysBetween(Min(valid_dates), Max(valid_dates)))
       ELSE ("first_message_date" :> <<"Bilinmiyor">>)
            @@ ("last_message_date" :> <<"Bilinmiyor">>)
            @@ ("date_range_days" :> 0)

\* lines 122-124: groupby('date').size(), whose keys are the non-null dates
DayKeys(rows) == {Val(rows[i].date) : i \in {j \in Indices(rows) : ~IsNa(rows[j].date)}}
DaySize(rows, d) == Cardinality({i \in Indices(rows) : rows[i].date = Some(d)})
\* idxmax(): the first key, in key order, with the largest size
MostActiveDay(rows) ==
    Min({d \in DayKeys(rows) : \A e \in DayKeys(rows) : DaySize(rows, e) <= DaySize(rows, d)})

\* a count of the non-null cells in place of the sum of the comparison
CountEqual_CountsNonNull(rows, col, v) ==
    Cardinality({i \in Indices(rows) : ~IsNa(rows[i][col])})

\* lines 128-129: (from_me == v).sum()
CountEqual(rows, col, v) == Cardinality({i \in Indices(rows) : rows[i][col] = Some(v)})

\* the whole method
get_general_statistics ==
    LET rows == messages.rows
        cols == messages.cols
        op == "get_general_statistics"
    IN IF "chat_id" \notin cols \/ "media_type" \notin cols
       THEN Raised(op, None, "KeyError")
       ELSE IF "date" \in cols /\ DayKeys(rows) = {}
       THEN Raised(op, None, "ValueError")
       ELSE LET total_chats == NUnique(rows, "chat_id")
                total_groups == IF "is_group" \in cols
                                THEN Cardinality(GroupChats(rows)) ELSE 0
            IN Returned(op, None,
                 ("total_messages" :> Len(rows))
                 @@ ("total_chats" :> total_chats)
                 @@ ("total_media" :> Cardinality({i \in Indices(rows) : IsMedia(rows[i])}))
                 @@ ("total_groups" :> total_groups)
                 @@ ("total_personal_chats" :> total_chats - total_groups)
                 @@ (IF "datetime" \in cols THEN DateStatistics(rows) ELSE <<>>)
                 @@ (IF "date" \in cols
                     THEN ("most_active_day" :> MostActiveDay(rows))
                          @@ ("most_active_day_count" :>
                                DaySize(rows, MostActiveDay(rows)))
                     ELSE <<>>)
                 @@ (IF "from_me" \in cols
                     THEN ("sent_messages" :> CountEqual(rows, "from_me", 1))
                          @@ ("received_messages" :> CountEqual(rows, "from_me", 0))
                     ELSE <<>>))

-----------------------------------------------------------------------------
(* The tables the resolver is constructed with, and the identifiers asked for *)

NoTable == [cols |-> {}, rows |-> <<>>]
NoMessages == [loaded |-> FALSE, copied |-> TRUE, cols |-> {}, rows |-> <<>>]

Locals == {<<>>, <<"5">>, <<"+", "5">>}
Suffixes == {<<>>, LidMarker, DirectMarker, GroupMarker, LidMarker \o DirectMarker}
ChatIdInputs == {None} \cup {Some(l \o d) : l \in Locals, d \in Suffixes}

DirectJid == <<"5">> \o DirectMarker
LidJid == <<"5">> \o LidMarker
GroupJid == <<"5">> \o GroupMarker

DisplayNames == {None, Some(<<>>), Some(<<" ">>), Some(<<"None">>), Some(<<"Ada">>)}
GivenNames == {None, Some(<<" ">>), Some(<<"None">>), Some(<<"Bob">>)}

\* wa_contacts rows (jid, display_name, given_name), or the jid-table fallback
\* of get_contacts, which has no given_name column
ContactColsFull == {"jid", "display_name", "given_name", "status"}
ContactColsJidOnly == {"jid_row_id", "jid", "display_name"}
ContactRows(given) ==
    [jid : {Some(DirectJid), Some(LidJid)}, display_name : DisplayNames, given_name : given]
IsContactTable(df) ==
    \/ df = NoTable
    \/ \E k \in 1..MaxContacts : \E rs \in [1..k -> ContactRows(GivenNames)] :
          df = [cols |-> ContactColsFull, rows |-> rs]
    \/ \E k \in 1..MaxContacts : \E rs \in [1..k -> ContactRows({None})] :
          df = [cols |-> ContactColsJidOnly, rows |-> rs]

\* jid_map rows (lid_jid, normal_jid); the canonical side may be NULL
AliasRows == [lid_jid : {Some(LidJid)},
              normal_jid : {None, Some(DirectJid), Some(GroupJid)}]
IsAliasTable(df) ==
    \/ df = NoTable
    \/ \E k \in 1..MaxAliases : \E rs \in [1..k -> AliasRows] :
          df = [cols |-> {"lid_jid", "normal_jid"}, rows |-> rs]

InitResolver ==
    /\ msgstore = <<>>
    /\ messages_df = NoTable
    /\ messages = NoMessages
    /\ IsContactTable(contacts)
    /\ groups = NoTable
    /\ media = NoTable
    /\ IsAliasTable(lid_map)
    /\ last = NoCall
    /\ app = NoApp

CallGetContactName ==
    /\ \E chat_id \in ChatIdInputs : last' = get_contact_name(chat_id)
    /\ UNCHANGED <<msgstore, messages_df, messages, contacts, groups, media, lid_map, app>>

NextResolver == CallGetContactName

SpecResolver == InitResolver /\ [][NextResolver]_vars

-----------------------------------------------------------------------------
(* What the specification says of the resolver *)

IsNameCall == last.op = "get_contact_name" /\ ~IsNa(last.arg)
AskedId == Val(last.arg)

NoAt(s) == \A i \in 1..Len(s) : s[i] # "@"
HasSuffix(s, suf) ==
    /\ Len(s) >= Len(suf)
    /\ SubSeq(s, Len(s) - Len(suf) + 1, Len(s)) = suf
    /\ NoAt(SubSeq(s, 1, Len(s) - Len(suf)))
\* '<local>@s.whatsapp.net' and '<local>@lid'
IsDirectId(s) == HasSuffix(s, DirectMarker)
IsAliasId(s) == HasSuffix(s, LidMarker)

\* the rows of the Alias Map for an identifier
AliasRowsOf(id) == SelectSeq(lid_map.rows, LAMBDA r : r.lid_jid = Some(id))
\* the rows of the Contact dataset for an identifier
ContactRowsOf(id) == SelectSeq(contacts.rows, LAMBDA r : r.jid = Some(id))

GoodName(cell) == ~IsNa(cell) /\ Val(cell) # <<>> /\ Val(cell) # <<"None">>
                  /\ \E i \in 1..Len(Val(cell)) : Val(cell)[i] # " "
\* step 3 of the resolver: display_name, else given_name, else nothing
SpecifiedName(id) ==
    IF ContactRowsOf(id) = <<>> THEN None
    ELSE LET row == ContactRowsOf(id)[1]
         IN IF "display_name" \in contacts.cols /\ GoodName(row.display_name)
            THEN row.display_name
            ELSE IF "given_name" \in contacts.cols /\ GoodName(row.given_name)
                 THEN row.given_name
                 ELSE None
\* step 4: the local part with one '+' in front
SpecifiedPhone(id) ==
    LET local == SplitAtFirst(id)
    IN IF Len(local) > 0 /\ Head(local) = "+" THEN local ELSE <<"+">> \o local

\* C1: get_contact_name returns a string for every chat_id and every content
\* of the Contact and Alias Map datasets; it never raises.
C1_NeverRaises == last.op = "get_contact_name" => last.raised = ""

\* C2: with a matching Contact row the result is display_name when usable,
\* otherwise given_name when usable, otherwise the formatted identifier.
C2_DisplayThenGiven ==
    (IsNameCall /\ ~Contains(AskedId, LidMarker) /\ ContactRowsOf(AskedId) # <<>>) =>
        /\ last.raised = ""
        /\ last.value = IF ~IsNa(SpecifiedName(AskedId))
                        THEN Val(SpecifiedName(AskedId))
                        ELSE FormatIdentifier(AskedId, AskedId)

\* the asked identifier is an alias whose first Alias Map row names a direct chat
TranslatedToDirect ==
    /\ IsNameCall /\ IsAliasId(AskedId)
    /\ AliasRowsOf(AskedId) # <<>>
    /\ ~IsNa(AliasRowsOf(AskedId)[1].normal_jid)
    /\ IsDirectId(Val(AliasRowsOf(AskedId)[1].normal_jid))
TranslatedId == Val(AliasRowsOf(AskedId)[1].normal_jid)
\* C3: an alias identifier that the Alias Map translates to a direct-chat
\* identifier is looked up under the translated identifier: the contact's
\* display_name when it has one, the translated identifier as a phone number
\* when no contact name resolves.
C3_AliasLookup ==
    TranslatedToDirect =>
        /\ last.raised = ""
        /\ (ContactRowsOf(TranslatedId) # <<>>
             /\ "display_name" \in contacts.cols
             /\ GoodName(ContactRowsOf(TranslatedId)[1].display_name))
           => last.value = Val(ContactRowsOf(TranslatedId)[1].display_name)
        /\ IsNa(SpecifiedName(TranslatedId)) => last.value = SpecifiedPhone(TranslatedId)
C3_Witness ==
    /\ TranslatedToDirect
    /\ ContactRowsOf(TranslatedId) # <<>>
    /\ ContactRowsOf(TranslatedId)[1].display_name = Some(<<"Ada">>)
    /\ last.value = <<"Ada">>

\* C4: a direct-chat identifier with no resolvable contact name gives the
\* local part with exactly one '+' in front.
C4_DirectAsPhone ==
    (IsNameCall /\ IsDirectId(AskedId) /\ IsNa(SpecifiedName(AskedId))) =>
        /\ last.raised = ""
        /\ last.value = SpecifiedPhone(AskedId)
C4_Witness ==
    /\ IsNameCall /\ AskedId = <<"+", "5">> \o DirectMarker
    /\ IsNa(SpecifiedName(AskedId))
    /\ last.value = <<"+", "5">>

\* no Alias Map, or no row of it for the asked identifier
Untranslated == Empty(lid_map) \/ AliasRowsOf(AskedId) = <<>>
\* C5: an untranslatable alias identifier with no contact name gives the text
\* before its '@'; another domain marker gives the local part; an identifier
\* with no '@' is returned unchanged.
C5_Fallbacks ==
    (IsNameCall /\ IsNa(SpecifiedName(AskedId))) =>
        /\ (IsAliasId(AskedId) /\ Untranslated) =>
              last.raised = "" /\ last.value = SplitAtFirst(AskedId)
        /\ (~NoAt(AskedId) /\ ~Contains(AskedId, LidMarker)
             /\ ~Contains(AskedId, DirectMarker)) =>
              last.raised = "" /\ last.value = SplitAtFirst(AskedId)
        /\ NoAt(AskedId) => last.raised = "" /\ last.value = AskedId
C5_Witness ==
    /\ IsNameCall /\ AskedId = LidJid /\ Untranslated
    /\ IsNa(SpecifiedName(AskedId))
    /\ last.value = <<"5">>

-----------------------------------------------------------------------------
(* The analyzer over a message table: the type distribution *)

TableCols == {"message_id", "chat_id", "from_me", "timestamp", "message_text",
              "media_type", "datetime", "is_group"}

\* a table of the given cells, numbered by message_id, is_group following chat_id
MakeTable(cols, cells) ==
    [cols |-> cols,
     rows |-> [i \in 1..Len(cells) |->
                 [message_id |-> i, from_me |-> cells[i].from_me,
                  timestamp |-> cells[i].datetime,
                  message_text |-> cells[i].message_text,
                  message_type |-> None,
                  datetime |-> cells[i].datetime,
                  is_group |-> is_group_of(cells[i].chat_id),
                  chat_id |-> cells[i].chat_id,
                  media_type |-> cells[i].media_type,
                  date |-> None, month |-> None, hour |-> None,
                  day_of_week |-> None]]]

MediaTypes == {None} \cup {Some(c) : c \in (0 - 1)..MaxMediaType}
TypeCells(media_types) ==
    [chat_id : {Some(DirectJid)}, from_me : {Some(0)},
     datetime : {Some(0)}, media_type : media_types, message_text : {None}]
\* a table with a media_type column, or one without
IsTypeTable(df) ==
    \/ \E k \in 1..MaxMsgs : \E cells \in [1..k -> TypeCells(MediaTypes)] :
          df = MakeTable(TableCols, cells)
    \/ \E k \in 1..MaxMsgs : \E cells \in [1..k -> TypeCells({None})] :
          df = MakeTable(TableCols \ {"media_type"}, cells)

InitTypes ==
    /\ msgstore = <<>>
    /\ IsTypeTable(messages_df)
    /\ messages = AnalyzerInit(messages_df)
    /\ contacts = NoTable
    /\ groups = NoTable
    /\ media = NoTable
    /\ lid_map = NoTable
    /\ last = NoCall
    /\ app = NoApp

CallGetMessageTypeDistribution ==
    /\ messages.loaded
    /\ last' = get_message_type_distribution
    /\ UNCHANGED <<msgstore, messages_df, messages, contacts, groups, media, lid_map, app>>

NextTypes == CallGetMessageTypeDistribution

SpecTypes == InitTypes /\ [][NextTypes]_vars

IsDistribution == last.op = "get_message_type_distribution" /\ last.raised = ""
Rows == messages.rows
NumberOf(P(_)) == Cardinality({i \in Indices(Rows) : P(Rows[i])})

\* the classification as the specification tabulates it, for codes >= 0
SpecifiedCategory(media_type) ==
    IF IsNa(media_type) THEN "Text"
    ELSE CASE Val(media_type) = 0 -> "Text"
           [] Val(media_type) = 1 -> "Image"
           [] Val(media_type) = 2 -> "Audio"
           [] Val(media_type) = 3 -> "Video"
           [] Val(media_type) = 4 -> "Contact"
           [] Val(media_type) = 5 -> "Location"
           [] Val(media_type) = 9 -> "Document"
           [] Val(media_type) = 13 -> "GIF"
           [] Val(media_type) = 20 -> "Sticker"
           [] OTHER -> "Other"

\* C6: the classification is total over the ten categories: null or 0 is
\* Text, the codes 1,2,3,4,5,9,13,20 are Image, Audio, Video, Contact,
\* Location, Document, GIF, Sticker, every other positive code is Other.
C6_Classification ==
    (IsDistribution /\ "media_type" \in messages.cols
        /\ \A i \in Indices(Rows) :
              IsNa(Rows[i].media_type) \/ Val(Rows[i].media_type) >= 0) =>
        /\ DOMAIN last.value = Categories
        /\ \A c \in Categories :
              last.value[c] = NumberOf(LAMBDA m : SpecifiedCategory(m.media_type) = c)
C6_Witness ==
    /\ IsDistribution /\ "media_type" \in messages.cols
    /\ Len(Rows) = 2
    /\ Rows[1].media_type = Some(2) /\ Rows[2].media_type = Some(MaxMediaType)
    /\ last.value["Audio"] = 1 /\ last.value["Other"] = 1

SumOf(d) == d["Text"] + d["Image"] + d["Video"] + d["Audio"] + d["Document"]
            + d["Sticker"] + d["Location"] + d["Contact"] + d["GIF"] + d["Other"]

\* C7: the counts sum to the number of messages; with N messages of
\* media_type null or 0 and M of media_type 1, Text = N, Image = M and every
\* other category is 0.
C7_SumsToTotal ==
    IsDistribution =>
        /\ SumOf(last.value) = Len(Rows)
        /\ \A c \in Categories : last.value[c] >= 0
        /\ ("media_type" \in messages.cols
            /\ \A i \in Indices(Rows) : Rows[i].media_type \in {None, Some(0), Some(1)}) =>
              /\ last.value["Text"] =
                   NumberOf(LAMBDA m : m.media_type \in {None, Some(0)})
              /\ last.value["Image"] = NumberOf(LAMBDA m : m.media_type = Some(1))
              /\ \A c \in Categories \ {"Text", "Image"} : last.value[c] = 0
C7_Witness ==
    /\ IsDistribution /\ "media_type" \in messages.cols
    /\ Len(Rows) = 2
    /\ Rows[1].media_type = None /\ Rows[2].media_type = Some(1)
    /\ last.value["Text"] = 1 /\ last.value["Image"] = 1

-----------------------------------------------------------------------------
(* From the message store to the distribution *)

RawTypes == {None} \cup {Some(c) : c \in 0..MaxRawType}
RawCells == [chat_row_id : {0, 1}, from_me : {Some(0)}, timestamp : {Some(0)},
             message_type : RawTypes, chat_jid : {Some(DirectJid)}]
\* the message table of the given cells, _id numbering the rows
MakeStore(cells) ==
    [i \in 1..Len(cells) |->
        [message_id |-> i, chat_row_id |-> cells[i].chat_row_id,
         from_me |-> cells[i].from_me, timestamp |-> cells[i].timestamp,
         message_text |-> None,
         message_type |-> cells[i].message_type, chat_jid |-> cells[i].chat_jid]]

InitIngest ==
    /\ \E k \in 0..MaxRawMsgs : \E cells \in [1..k -> RawCells] :
          msgstore = MakeStore(cells)
    /\ messages_df = NoTable
    /\ messages = NoMessages
    /\ contacts = NoTable
    /\ groups = NoTable
    /\ media = NoTable
    /\ lid_map = NoTable
    /\ last = NoCall
    /\ app = NoApp

\* main.py lines 68-94: the table is read and the analyzer constructed on it
RunAnalyze ==
    /\ ~messages.loaded /\ last.op = "none"
    /\ \E df \in reader_get_messages(msgstore) :
          /\ ~Empty(df)
          /\ messages_df' = df
          /\ messages' = AnalyzerInit(df)
    /\ UNCHANGED <<msgstore, contacts, groups, media, lid_map, last, app>>

\* main.py lines 72-74: an empty table ends the run
RunNoMessages ==
    /\ ~messages.loaded /\ last.op = "none"
    /\ \E df \in reader_get_messages(msgstore) : Empty(df)
    /\ last' = Returned("run", None, FALSE)
    /\ UNCHANGED <<msgstore, messages_df, messages, contacts, groups, media, lid_map, app>>

NextIngest == RunAnalyze \/ RunNoMessages \/ CallGetMessageTypeDistribution

SpecIngest == InitIngest /\ [][NextIngest]_vars

\* the rows whose raw provider code is among the given codes
RawIn(S) == NumberOf(LAMBDA m : ~IsNa(m.message_type) /\ Val(m.message_type) \in S)
UnmappedCodes == (1..MaxRawType) \ DOMAIN type_map

C9_SameCodeSet ==
    /\ messages.loaded =>
          \A i \in Indices(Rows) : SpecifiedCategory(Rows[i].media_type) # "Other"
    /\ IsDistribution =>
          /\ last.value["Other"] = 0
          /\ last.value["Audio"] = RawIn({2, 8, 14})
C9_Witness ==
    /\ IsDistribution /\ Len(Rows) = 1
    /\ Rows[1].message_type = Some(14)
    /\ last.value["Audio"] = 1

-----------------------------------------------------------------------------
(* The analyzer over a message table: the general statistics *)

Datetimes == {None} \cup {Some(t) : t \in 0..MaxTime}
StatsCells(from_me) ==
    [chat_id : {Some(DirectJid), Some(GroupJid)}, from_me : from_me,
     datetime : Datetimes, media_type : {Some(0), Some(1)}, message_text : {None}]
\* a table with a from_me column, or one without
IsStatsTable(df) ==
    \/ \E k \in 1..MaxMsgs : \E cells \in [1..k -> StatsCells({None, Some(0), Some(1)})] :
          df = MakeTable(TableCols, cells)
    \/ \E k \in 1..MaxMsgs : \E cells \in [1..k -> StatsCells({None})] :
          df = MakeTable(TableCols \ {"from_me"}, cells)

InitStats ==
    /\ msgstore = <<>>
    /\ IsStatsTable(messages_df)
    /\ messages = AnalyzerInit(messages_df)
    /\ contacts = NoTable
    /\ groups = NoTable
    /\ media = NoTable
    /\ lid_map = NoTable
    /\ last = NoCall
    /\ app = NoApp

CallGetGeneralStatistics ==
    /\ messages.loaded
    /\ last' = get_general_statistics
    /\ UNCHANGED <<msgstore, messages_df, messages, contacts, groups, media, lid_map, app>>

NextStats == CallGetGeneralStatistics

SpecStats == InitStats /\ [][NextStats]_vars

IsStatistics == last.op = "get_general_statistics" /\ last.raised = ""

\* C10: sent_messages + received_messages = total_messages whenever the
\* from_me column is present and every value is 0 or 1.
C10_SentPlusReceived ==
    (IsStatistics /\ "from_me" \in messages.cols
        /\ \A i \in Indices(Rows) : Rows[i].from_me \in {Some(0), Some(1)}) =>
        /\ {"sent_messages", "received_messages", "total_messages"}
              \subseteq DOMAIN last.value
        /\ last.value["sent_messages"] + last.value["received_messages"]
              = last.value["total_messages"]
C10_Witness ==
    /\ IsStatistics /\ "from_me" \in messages.cols
    /\ Len(Rows) = 2
    /\ Rows[1].from_me = Some(0) /\ Rows[2].from_me = Some(1)
    /\ last.value["sent_messages"] = 1 /\ last.value["received_messages"] = 1
    /\ last.value["total_messages"] = 2

-----------------------------------------------------------------------------
(* WhatsAppAnalyzer.get_top_contacts *)

MaxChatMsgs == 3
MaxLimit == 2

\* every chat ranked, group or not
PersonalMessages_AllChats(m) == m.rows

\* lines 229-232: the rows with is_group == False, when the column exists
PersonalMessages(m) ==
    IF "is_group" \in m.cols THEN SelectSeq(m.rows, LAMBDA r : ~r.is_group) ELSE m.rows

\* groupby('chat_id'): the keys are the non-null chat_id values
ChatKeys(rows) ==
    {Val(rows[i].chat_id) : i \in {j \in Indices(rows) : ~IsNa(rows[j].chat_id)}}
ChatRows(rows, chat_id) == SelectSeq(rows, LAMBDA r : r.chat_id = Some(chat_id))

\* Series.round(2) of num / den, in hundredths; a tie goes to the even digit
Round2(num, den) ==
    LET q == (100 * num) \div den
        r == (100 * num) % den
    IN IF 2 * r < den THEN q
       ELSE IF 2 * r > den THEN q + 1
       ELSE IF q % 2 = 0 THEN q ELSE q + 1

\* the share of the sent messages, without the smoothing term
BalanceScore_Unsmoothed(sent_by_me, total_messages) ==
    Round2(sent_by_me, total_messages)

\* lines 248-249: (sent_by_me / (total_messages + 1)).round(2)
BalanceScore(sent_by_me, total_messages) == Round2(sent_by_me, total_messages + 1)

\* lines 234-249: the row of one chat; message_id is never null, so its
\* count is the number of the chat's rows
ContactStats(rows, chat_id) ==
    LET of == ChatRows(rows, chat_id)
        total_messages == Len(of)
        sent_by_me == CountEqual(of, "from_me", 1)
    IN [chat_id |-> chat_id,
        total_messages |-> total_messages,
        sent_by_me |-> sent_by_me,
        last_message |-> IF ValidDates(of) = {} THEN None ELSE Some(Max(ValidDates(of))),
        received |-> total_messages - sent_by_me,
        contact_name |-> get_contact_name(Some(chat_id)).value,
        balance_score |-> BalanceScore(sent_by_me, total_messages)]

\* sort_values(col, ascending=False): the order of equal keys is not fixed
SortDescending(S, col) ==
    LET n == Cardinality(S)
    IN {t \in [1..n -> S] :
          /\ \A i, j \in 1..n : i # j => t[i] # t[j]
          /\ \A i \in 1..(n - 1) : t[i][col] >= t[i + 1][col]}

\* DataFrame.head(n), n >= 0
Head_(rows, n) == SubSeq(rows, 1, IF n < Len(rows) THEN n ELSE Len(rows))

TopContactCols == {"chat_id", "total_messages", "sent_by_me", "last_message",
                   "received", "contact_name", "balance_score"}

\* the whole method: the results it can give
get_top_contacts(limit) ==
    LET op == "get_top_contacts"
        personal_messages == PersonalMessages(messages)
        keys == ChatKeys(personal_messages)
    IN IF {"chat_id", "message_id", "from_me", "datetime"} \ messages.cols # {}
       THEN {Raised(op, Some(limit), "KeyError")}
       ELSE IF \E c \in keys : get_contact_name(Some(c)).raised # ""
       THEN {Raised(op, Some(limit), "TypeError")}
       ELSE {Returned(op, Some(limit),
                      [cols |-> TopContactCols, rows |-> Head_(sorted, limit)]) :
               sorted \in SortDescending({ContactStats(personal_messages, c) : c \in keys},
                                         "total_messages")}

-----------------------------------------------------------------------------
(* The analyzer over a message table: the contact ranking *)

IsContactsTable(df) ==
    \E k \in 1..MaxChatMsgs :
        \E cells \in [1..k -> [chat_id : {None, Some(DirectJid), Some(LidJid), Some(GroupJid)},
                               from_me : {Some(0), Some(1)},
                               datetime : {Some(0)}, media_type : {Some(0)},
                               message_text : {None}]] :
            df = MakeTable(TableCols, cells)

\* an alias map whose only row has no canonical identifier
NullAliasMap == [cols |-> {"lid_jid", "normal_jid"},
                 rows |-> <<[lid_jid |-> Some(LidJid), normal_jid |-> None]>>]

InitContacts ==
    /\ msgstore = <<>>
    /\ IsContactsTable(messages_df)
    /\ messages = AnalyzerInit(messages_df)
    /\ contacts = NoTable
    /\ groups = NoTable
    /\ media = NoTable
    /\ lid_map \in {NoTable, NullAliasMap}
    /\ last = NoCall
    /\ app = NoApp

CallGetTopContacts ==
    /\ messages.loaded
    /\ \E limit \in 0..MaxLimit : last' \in get_top_contacts(limit)
    /\ UNCHANGED <<msgstore, messages_df, messages, contacts, groups, media, lid_map, app>>

NextContacts == CallGetTopContacts

SpecContacts == InitContacts /\ [][NextContacts]_vars

IsTopContacts == last.op = "get_top_contacts" /\ last.raised = ""
\* the distinct chat identifiers of the messages that are not group messages
NonGroupChats == ChatKeys(SelectSeq(Rows, LAMBDA r : ~is_group_of(r.chat_id)))
MessagesOf(chat_id) == Cardinality({i \in Indices(Rows) : Rows[i].chat_id = Some(chat_id)})
SentOf(chat_id) ==
    Cardinality({i \in Indices(Rows) :
                    Rows[i].chat_id = Some(chat_id) /\ Rows[i].from_me = Some(1)})

\* C11: get_top_contacts(limit) returns min(limit, number of distinct
\* non-group chat_ids) rows, one per distinct non-group chat_id, in descending
\* order of total_messages (the chats left out have no more messages than the
\* ones returned), and no row is a group chat.
C11_TopContacts ==
    IsTopContacts =>
        LET top == last.value.rows
            limit == Val(last.arg)
            n == Cardinality(NonGroupChats)
        IN /\ Len(top) = IF limit < n THEN limit ELSE n
           /\ \A i, j \in Indices(top) : i # j => top[i].chat_id # top[j].chat_id
           /\ \A i \in Indices(top) :
                 /\ top[i].chat_id \in NonGroupChats
                 /\ ~is_group_of(Some(top[i].chat_id))
                 /\ top[i].total_messages = MessagesOf(top[i].chat_id)
           /\ \A i \in 1..(Len(top) - 1) :
                 top[i].total_messages >= top[i + 1].total_messages
           /\ \A c \in NonGroupChats :
                 (\A i \in Indices(top) : top[i].chat_id # c) =>
                     \A i \in Indices(top) : top[i].total_messages >= MessagesOf(c)
C11_Witness ==
    /\ IsTopContacts /\ Val(last.arg) = 1
    /\ Len(Rows) = 3
    /\ MessagesOf(LidJid) = 2 /\ MessagesOf(GroupJid) = 0 /\ MessagesOf(DirectJid) = 1
    /\ Len(last.value.rows) = 1
    /\ last.value.rows[1].chat_id = LidJid
    /\ last.value.rows[1].total_messages = 2

\* C12: in every row of get_top_contacts, balance_score is
\* sent_by_me / (total_messages + 1) rounded to 2 decimals and lies in [0, 1],
\* and received is total_messages - sent_by_me and is not negative.
C12_BalanceAndReceived ==
    IsTopContacts =>
        \A i \in Indices(last.value.rows) :
            LET row == last.value.rows[i]
                h == row.balance_score
                d == row.total_messages + 1
            IN /\ row.sent_by_me = SentOf(row.chat_id)
               /\ 2 * (100 * row.sent_by_me - h * d) <= d
               /\ 2 * (h * d - 100 * row.sent_by_me) <= d
               /\ 0 <= h /\ h <= 100
               /\ row.received = row.total_messages - row.sent_by_me
               /\ row.received >= 0
C12_Witness ==
    /\ IsTopContacts
    /\ Len(last.value.rows) = 1
    /\ last.value.rows[1].total_messages = 2
    /\ last.value.rows[1].sent_by_me = 2
    /\ last.value.rows[1].balance_score = 67
    /\ last.value.rows[1].received = 0

-----------------------------------------------------------------------------
(* WhatsAppAnalyzer.get_message_response_time_analysis *)

\* line 587: the 24 hours of the window, in minutes
ResponseWindowMinutes == 1440

\* sort_values(col): ascending, nulls last, the order of equal keys not fixed
NullsLastLeq(a, b) == IsNa(b) \/ (~IsNa(a) /\ Val(a) <= Val(b))
SortValues(rows, col) ==
    LET n == Len(rows)
        perms == {p \in [1..n -> 1..n] :
                    /\ \A i, j \in 1..n : i # j => p[i] # p[j]
                    /\ \A i, j \in 1..n :
                          i < j => NullsLastLeq(rows[p[i]][col], rows[p[j]][col])}
    IN {[i \in 1..n |-> rows[p[i]]] : p \in perms}

\* (curr - prev).total_seconds() / 60 of two valid datetimes
MinutesBetween(prev, curr) == ((curr - prev) * 24 * 60) \div TicksPerDay

\* a window that takes its two ends
InWindow_Inclusive(time_diff) == 0 <= time_diff /\ time_diff <= ResponseWindowMinutes

\* line 587: 0 < time_diff < 1440
InWindow(time_diff) == 0 < time_diff /\ time_diff < ResponseWindowMinutes

\* lines 580-588 for one sorted chat: the positions i whose pair (i-1, i) is
\* appended; a difference with NaT is NaN and fails both comparisons
Replies(chat_msgs) ==
    {i \in 2..Len(chat_msgs) :
        /\ chat_msgs[i - 1].from_me = Some(0) /\ chat_msgs[i].from_me = Some(1)
        /\ ~IsNa(chat_msgs[i - 1].datetime) /\ ~IsNa(chat_msgs[i].datetime)
        /\ InWindow(MinutesBetween(Val(chat_msgs[i - 1].datetime),
                                   Val(chat_msgs[i].datetime)))}

RECURSIVE SumOver(_, _)
SumOver(S, f) ==
    IF S = {} THEN 0
    ELSE LET x == CHOOSE y \in S : TRUE IN f[x] + SumOver(S \ {x}, f)

\* np.mean, np.median, np.min, np.max of the values f over the items S; a mean
\* or median is the fraction num / den
SampleStatistics(S, f) ==
    LET n == Cardinality(S)
        sorted == CHOOSE t \in [1..n -> S] :
                     /\ \A i, j \in 1..n : i # j => t[i] # t[j]
                     /\ \A i \in 1..(n - 1) : f[t[i]] <= f[t[i + 1]]
    IN ("avg_response_time_minutes" :> [num |-> SumOver(S, f), den |-> n])
       @@ ("median_response_time_minutes" :>
             IF n % 2 = 1
             THEN [num |-> f[sorted[(n + 1) \div 2]], den |-> 1]
             ELSE [num |-> f[sorted[n \div 2]] + f[sorted[(n \div 2) + 1]], den |-> 2])
       @@ ("min_response_time_minutes" :> Min({f[x] : x \in S}))
       @@ ("max_response_time_minutes" :> Max({f[x] : x \in S}))

\* the whole method: the results it can give; unique() also yields the null
\* chat_id, which selects no row
get_message_response_time_analysis ==
    LET op == "get_message_response_time_analysis"
        rows == messages.rows
        keys == ChatKeys(rows)
    IN IF "datetime" \notin messages.cols \/ "from_me" \notin messages.cols
       THEN {Returned(op, None, <<>>)}
       ELSE IF "chat_id" \notin messages.cols
       THEN {Raised(op, None, "KeyError")}
       ELSE {LET response_times ==
                    UNION {{<<c, i>> : i \in Replies(chat_msgs[c])} : c \in keys}
                 time_diff == [x \in response_times |->
                                 MinutesBetween(Val(chat_msgs[x[1]][x[2] - 1].datetime),
                                                Val(chat_msgs[x[1]][x[2]].datetime))]
             IN IF response_times = {} THEN Returned(op, None, <<>>)
                ELSE Returned(op, None, SampleStatistics(response_times, time_diff)) :
              chat_msgs \in {f \in [keys -> UNION {SortValues(ChatRows(rows, c), "datetime")
                                                     : c \in keys}] :
                               \A c \in keys :
                                   f[c] \in SortValues(ChatRows(rows, c), "datetime")}}

-----------------------------------------------------------------------------
(* The analyzer over a message table: the response times *)

\* a reply can come in the window, exactly at its end, after it, or at once
ResponseTimes == {None, Some(0), Some(1), Some(TicksPerDay + 1)}
IsResponseTable(df) ==
    \E k \in 1..MaxChatMsgs :
        \E cells \in [1..k -> [chat_id : {Some(DirectJid), Some(LidJid)},
                               from_me : {Some(0), Some(1)},
                               datetime : ResponseTimes, media_type : {Some(0)},
                               message_text : {None}]] :
            df = MakeTable(TableCols, cells)

InitResponse ==
    /\ msgstore = <<>>
    /\ IsResponseTable(messages_df)
    /\ messages = AnalyzerInit(messages_df)
    /\ contacts = NoTable
    /\ groups = NoTable
    /\ media = NoTable
    /\ lid_map = NoTable
    /\ last = NoCall
    /\ app = NoApp

CallGetMessageResponseTimeAnalysis ==
    /\ messages.loaded
    /\ last' \in get_message_response_time_analysis
    /\ UNCHANGED <<msgstore, messages_df, messages, contacts, groups, media, lid_map, app>>

NextResponse == CallGetMessageResponseTimeAnalysis

SpecResponse == InitResponse /\ [][NextResponse]_vars

IsResponseTimes == last.op = "get_message_response_time_analysis" /\ last.raised = ""
Valid(i) == ~IsNa(Rows[i].datetime)
SameChat(i, j) == ~IsNa(Rows[i].chat_id) /\ Rows[i].chat_id = Rows[j].chat_id
\* the minutes from message i to message j
Minutes(i, j) == ((Val(Rows[j].datetime) - Val(Rows[i].datetime)) * 1440) \div TicksPerDay
\* an inbound message i and an outbound message j of the same chat
InboundThenOutbound(i, j) ==
    /\ i # j /\ SameChat(i, j) /\ Valid(i) /\ Valid(j)
    /\ Rows[i].from_me = Some(0) /\ Rows[j].from_me = Some(1)
\* no message of the chat lies between the two in time
AdjacentInTime(i, j) ==
    ~\E k \in Indices(Rows) :
        /\ SameChat(i, k) /\ Valid(k)
        /\ Val(Rows[i].datetime) < Val(Rows[k].datetime)
        /\ Val(Rows[k].datetime) < Val(Rows[j].datetime)
\* the pairs that the specification puts in the sample
SpecifiedReplies ==
    {x \in Indices(Rows) \X Indices(Rows) :
        /\ InboundThenOutbound(x[1], x[2]) /\ AdjacentInTime(x[1], x[2])
        /\ 0 < Minutes(x[1], x[2]) /\ Minutes(x[1], x[2]) < 1440}
SpecifiedMinutes == [x \in SpecifiedReplies |-> Minutes(x[1], x[2])]
\* the messages of one chat have different times, so that its time order is one
DistinctTimes ==
    \A i, j \in Indices(Rows) :
        (i # j /\ SameChat(i, j) /\ Valid(i) /\ Valid(j)) =>
            Rows[i].datetime # Rows[j].datetime

-----------------------------------------------------------------------------
(* WhatsAppAnalyzer.get_conversation_with_contact *)

\* pd.DataFrame()
EmptyFrame == [cols |-> {}, rows |-> <<>>]

\* DataFrame.tail(n), n >= 0
Tail_(rows, n) ==
    SubSeq(rows, (IF n < Len(rows) THEN Len(rows) - n ELSE 0) + 1, Len(rows))

\* the whole method on the analyzer's table m: the results it can give
get_conversation_with_contact(m, chat_id, limit) ==
    LET op == "get_conversation_with_contact"
        arg == Some(<<chat_id, limit>>)
        conv == ChatRows(m.rows, chat_id)
    IN IF "chat_id" \notin m.cols THEN {Returned(op, arg, EmptyFrame)}
       ELSE IF conv = <<>> THEN {Returned(op, arg, EmptyFrame)}
       ELSE IF "timestamp" \notin m.cols THEN {Raised(op, arg, "KeyError")}
       ELSE {Returned(op, arg,
                      [cols |-> m.cols,
                       rows |-> IF Len(sorted) > limit THEN Tail_(sorted, limit)
                                ELSE sorted]) :
               sorted \in SortValues(conv, "timestamp")}

-----------------------------------------------------------------------------
(* The analyzer over a message table: one conversation *)

IsConversationTable(df) ==
    \E k \in 1..MaxChatMsgs :
        \E cells \in [1..k -> [chat_id : {Some(DirectJid), Some(GroupJid)},
                               from_me : {Some(0)},
                               datetime : {None, Some(0), Some(1)},
                               media_type : {Some(0)}, message_text : {None}]] :
            df = MakeTable(TableCols, cells)

InitConversation ==
    /\ msgstore = <<>>
    /\ IsConversationTable(messages_df)
    /\ messages = AnalyzerInit(messages_df)
    /\ contacts = NoTable
    /\ groups = NoTable
    /\ media = NoTable
    /\ lid_map = NoTable
    /\ last = NoCall
    /\ app = NoApp

CallGetConversationWithContact ==
    /\ messages.loaded
    /\ \E chat_id \in {DirectJid, GroupJid, LidJid} : \E limit \in 0..MaxLimit :
          last' \in get_conversation_with_contact(messages, chat_id, limit)
    /\ UNCHANGED <<msgstore, messages_df, messages, contacts, groups, media, lid_map, app>>

NextConversation == CallGetConversationWithContact

SpecConversation == InitConversation /\ [][NextConversation]_vars

IsConversation == last.op = "get_conversation_with_contact" /\ last.raised = ""
AskedChat == Val(last.arg)[1]
AskedLimit == Val(last.arg)[2]
\* the message_ids of the asked chat, and the ones returned
ChatMessageIds == {Rows[i].message_id : i \in {j \in Indices(Rows) :
                                                  Rows[j].chat_id = Some(AskedChat)}}
ReturnedIds == {last.value.rows[i].message_id : i \in Indices(last.value.rows)}
TimestampOf(id) == Rows[CHOOSE i \in Indices(Rows) : Rows[i].message_id = id].timestamp

\* C14: with limit below the chat's message count the result is the limit
\* chronologically most recent messages of the chat, in ascending order, also
\* when some timestamps are null (a message with a known timestamp is never
\* left out in favour of one without); with limit at least the count it is
\* all of the chat's messages in ascending order.
C14_MostRecent ==
    IsConversation =>
        LET conv == last.value.rows
            n == Cardinality(ChatMessageIds)
        IN /\ Len(conv) = IF AskedLimit < n THEN AskedLimit ELSE n
           /\ Cardinality(ReturnedIds) = Len(conv)
           /\ ReturnedIds \subseteq ChatMessageIds
           /\ \A i, j \in Indices(conv) :
                 (i < j /\ ~IsNa(conv[i].timestamp) /\ ~IsNa(conv[j].timestamp)) =>
                     Val(conv[i].timestamp) <= Val(conv[j].timestamp)
           /\ \A r \in ReturnedIds : \A q \in ChatMessageIds \ ReturnedIds :
                 ~IsNa(TimestampOf(q)) =>
                     /\ ~IsNa(TimestampOf(r))
                     /\ Val(TimestampOf(r)) >= Val(TimestampOf(q))

-----------------------------------------------------------------------------
(* WhatsAppAnalyzer.get_messages_by_keyword *)

MaxSessionMsgs == 2

\* str.lower(), over the letters of the model
Lower(s) ==
    LET lower == ("H" :> "h") @@ ("B" :> "b") @@ ("C" :> "c") @@ ("T" :> "t")
    IN [i \in 1..Len(s) |-> IF s[i] \in DOMAIN lower THEN lower[s[i]] ELSE s[i]]

\* re.compile(pattern) raises re.error: a quantifier with nothing to repeat,
\* or a parenthesis without its partner
CompileError(pattern) ==
    \/ Len(pattern) > 0 /\ pattern[1] \in {"*", "?"}
    \/ \E i \in 1..Len(pattern) :
          \/ pattern[i] = "(" /\ \A j \in (i + 1)..Len(pattern) : pattern[j] # ")"
          \/ pattern[i] = ")" /\ \A j \in 1..(i - 1) : pattern[j] # "("

\* re.match(pattern, text) for a pattern of letters and '.', each of which
\* may be followed by '*' or '?'
RECURSIVE RegexMatch(_, _)
RegexMatch(text, pattern) ==
    LET one == text # <<>> /\ (pattern[1] = "." \/ pattern[1] = text[1])
    IN IF pattern = <<>> THEN TRUE
       ELSE IF Len(pattern) >= 2 /\ pattern[2] = "*"
       THEN \/ RegexMatch(text, SubSeq(pattern, 3, Len(pattern)))
            \/ one /\ RegexMatch(Tail(text), pattern)
       ELSE IF Len(pattern) >= 2 /\ pattern[2] = "?"
       THEN \/ RegexMatch(text, SubSeq(pattern, 3, Len(pattern)))
            \/ one /\ RegexMatch(Tail(text), SubSeq(pattern, 3, Len(pattern)))
       ELSE one /\ RegexMatch(Tail(text), Tail(pattern))

\* re.search(pattern, text): a match that starts anywhere in the text
RegexSearch(text, pattern) ==
    \E i \in 1..(Len(text) + 1) : RegexMatch(SubSeq(text, i, Len(text)), pattern)

\* lines 553-556: the column message_text_str written on self.messages
KeywordColumn(m) ==
    IF "message_text" \in m.cols THEN [m EXCEPT !.cols = @ \cup {"message_text_str"}] ELSE m
\* a cell of that column
TextStr(message_text) == IF IsNa(message_text) THEN <<>> ELSE Lower(Val(message_text))

\* the whole method on the analyzer's table m: its result
get_messages_by_keyword(m, keyword, limit) ==
    LET op == "get_messages_by_keyword"
        arg == Some(<<keyword, limit>>)
        matches == SelectSeq(KeywordColumn(m).rows,
                             LAMBDA r : RegexSearch(TextStr(r.message_text), Lower(keyword)))
    IN IF "message_text" \notin m.cols THEN Returned(op, arg, EmptyFrame)
       ELSE IF CompileError(Lower(keyword)) THEN Raised(op, arg, "re.error")
       ELSE IF matches = <<>> THEN Returned(op, arg, EmptyFrame)
       ELSE Returned(op, arg,
                [cols |-> {"chat_id", "from_me", "datetime", "message_text"},
                 rows |-> Head_([i \in 1..Len(matches) |->
                                   [chat_id |-> matches[i].chat_id,
                                    from_me |-> matches[i].from_me,
                                    datetime |-> matches[i].datetime,
                                    message_text |-> matches[i].message_text]], limit)])

-----------------------------------------------------------------------------
(* One analyzer, constructed on the caller's tables and then called *)

IsSessionTable(df) ==
    \E k \in 1..MaxSessionMsgs :
        \E cells \in [1..k -> [chat_id : {Some(DirectJid), Some(LidJid)},
                               from_me : {Some(1)},
                               datetime : {Some(0)}, media_type : {Some(1)},
                               message_text : {None, Some(<<"H", "i">>),
                                               Some(<<"y", "o">>)}]] :
            df = MakeTable(TableCols, cells)

InitSession ==
    /\ msgstore = <<>>
    /\ IsSessionTable(messages_df)
    /\ messages = NoMessages
    /\ contacts = [cols |-> ContactColsFull,
                   rows |-> <<[jid |-> Some(DirectJid), display_name |-> Some(<<"Ada">>),
                               given_name |-> None]>>]
    /\ groups = [cols |-> {"jid", "subject"},
                 rows |-> <<[jid |-> Some(GroupJid), subject |-> None]>>]
    /\ media = [cols |-> {"message_row_id"}, rows |-> <<[message_row_id |-> 1]>>]
    /\ lid_map = [cols |-> {"lid_jid", "normal_jid"},
                  rows |-> <<[lid_jid |-> Some(LidJid), normal_jid |-> Some(DirectJid)]>>]
    /\ last = NoCall
    /\ app = NoApp

\* WhatsAppAnalyzer(messages_df, contacts_df, groups_df, media_df, lid_map_df)
Construct ==
    /\ ~messages.loaded
    /\ messages' = AnalyzerInit(messages_df)
    /\ messages_df' = CallerTable(messages_df, messages')
    /\ UNCHANGED <<msgstore, contacts, groups, media, lid_map, last, app>>

CallGetMessagesByKeyword ==
    /\ messages.loaded
    /\ \E keyword \in {<<"h", "i">>, <<"o">>, <<"x">>} : \E limit \in 1..MaxLimit :
          last' = get_messages_by_keyword(messages, keyword, limit)
    /\ messages' = KeywordColumn(messages)
    /\ messages_df' = CallerTable(messages_df, messages')
    /\ UNCHANGED <<msgstore, contacts, groups, media, lid_map, app>>

NextSession ==
    \/ Construct
    \/ CallGetConversationWithContact
    \/ CallGetMessagesByKeyword
    \/ CallGetTopContacts
    \/ CallGetGeneralStatistics
    \/ CallGetMessageTypeDistribution
    \/ CallGetMessageResponseTimeAnalysis

SpecSession == InitSession /\ [][NextSession]_vars

\* C15: the result of an operation does not depend on the operations called
\* before it: get_conversation_with_contact and get_messages_by_keyword give
\* what they give on the freshly constructed analyzer (same rows, same
\* columns, same values), whatever was called in between.
C15_SameResultAgain ==
    /\ last.op = "get_conversation_with_contact" =>
          last \in get_conversation_with_contact(AnalyzerInit(messages_df),
                                                 AskedChat, AskedLimit)
    /\ last.op = "get_messages_by_keyword" =>
          last = get_messages_by_keyword(AnalyzerInit(messages_df),
                                         Val(last.arg)[1], Val(last.arg)[2])

\* C16: the tables handed to the analyzer (messages, contacts, groups, media,
\* alias map) have the same rows, columns and values after the construction
\* and after every operation as before.
C16_CallerTablesUnchanged ==
    [][/\ messages_df' = messages_df
       /\ contacts' = contacts
       /\ groups' = groups
       /\ media' = media
       /\ lid_map' = lid_map]_vars
C16_Witness ==
    /\ messages.loaded
    /\ last.op = "get_messages_by_keyword"
    /\ "message_text_str" \in messages.cols /\ "date" \in messages.cols
    /\ messages_df.cols = TableCols
    /\ messages.rows # messages_df.rows

-----------------------------------------------------------------------------
(* The analyzer over a message table that lacks a column *)

\* a table without one of the columns the operations read; the cells of an
\* absent column are never read
IsPartialTable(df) ==
    \E c \in {"media_type", "from_me", "datetime", "timestamp", "message_text"} :
      \E k \in 1..MaxSessionMsgs :
        \E cells \in [1..k -> [chat_id : {Some(DirectJid), Some(GroupJid)},
                               from_me : IF c = "from_me" THEN {None}
                                         ELSE {Some(0), Some(1)},
                               datetime : IF c = "datetime" THEN {None} ELSE {Some(0)},
                               media_type : IF c = "media_type" THEN {None} ELSE {Some(1)},
                               message_text : {None}]] :
            df = MakeTable(TableCols \ {c}, cells)

InitColumns ==
    /\ msgstore = <<>>
    /\ IsPartialTable(messages_df)
    /\ messages = AnalyzerInit(messages_df)
    /\ contacts = NoTable
    /\ groups = NoTable
    /\ media = NoTable
    /\ lid_map = NoTable
    /\ last = NoCall
    /\ app = NoApp

NextColumns ==
    \/ CallGetGeneralStatistics
    \/ CallGetTopContacts
    \/ CallGetConversationWithContact
    \/ CallGetMessagesByKeyword
    \/ CallGetMessageResponseTimeAnalysis

SpecColumns == InitColumns /\ [][NextColumns]_vars

\* C17: no operation raises when a column it needs is absent from the message
\* table: get_general_statistics without media_type, get_top_contacts without
\* from_me or datetime, get_conversation_with_contact without timestamp and
\* the others return an empty or default value instead.
C17_NoRaiseOnMissingColumn ==
    (last.op # "none" /\ TableCols \ messages_df.cols # {}) => last.raised = ""

\* C18: get_general_statistics does not raise on a non-empty table in which
\* no message has a valid datetime; it still reports total_messages.
C18_NoValidDatetime ==
    (last.op = "get_general_statistics" /\ Len(Rows) > 0
        /\ {"chat_id", "media_type", "datetime"} \subseteq messages.cols
        /\ \A i \in Indices(Rows) : IsNa(Rows[i].datetime)) =>
        /\ last.raised = ""
        /\ last.value["total_messages"] = Len(Rows)

HasDates == IsStatistics /\ "datetime" \in messages.cols /\ ValidDates(Rows) # {}
FirstDay == Min(ValidDates(Rows)) \div TicksPerDay
LastDay == Max(ValidDates(Rows)) \div TicksPerDay

\* C20 as stated: date_range_days counts every calendar day from the first
\* to the last valid message datetime, so messages of one day give 1.
C20_InclusiveDaySpan ==
    HasDates => last.value["date_range_days"] = LastDay - FirstDay + 1

\* C20: date_range_days is the number of whole days (24 hours) that lie
\* between the earliest and the latest valid message datetime: 0 when they
\* are less than a day apart, never more than the number of calendar days
\* from the first to the last.
C20_WholeDaysBetween ==
    HasDates =>
        LET span == Max(ValidDates(Rows)) - Min(ValidDates(Rows))
            days == last.value["date_range_days"]
        IN /\ days * TicksPerDay <= span
           /\ span < (days + 1) * TicksPerDay
           /\ days <= LastDay - FirstDay
           /\ FirstDay = LastDay => days = 0
C20_Witness ==
    /\ HasDates
    /\ Len(Rows) = 2
    /\ Rows[1].datetime = Some(0) /\ Rows[2].datetime = Some(TicksPerDay)
    /\ last.value["date_range_days"] = 1

-----------------------------------------------------------------------------
(* The time-series rollups of WhatsAppAnalyzer *)

\* a grouping that files the rows without a key under the key 0
GroupSizes_NullAsZero(rows, col) ==
    LET filled == [i \in Indices(rows) |->
                     IF IsNa(rows[i][col]) THEN [rows[i] EXCEPT ![col] = Some(0)]
                     ELSE rows[i]]
        keys == {Val(filled[i][col]) : i \in Indices(filled)}
        n == Cardinality(keys)
        sorted == CHOOSE t \in [1..n -> keys] : \A i \in 1..(n - 1) : t[i] < t[i + 1]
    IN [i \in 1..n |-> [key |-> sorted[i], count |-> CountEqual(filled, col, sorted[i])]]

\* groupby(col).size(): one entry per non-null key, in key order
GroupSizes(rows, col) ==
    LET keys == {Val(rows[i][col]) : i \in {j \in Indices(rows) : ~IsNa(rows[j][col])}}
        n == Cardinality(keys)
        sorted == CHOOSE t \in [1..n -> keys] : \A i \in 1..(n - 1) : t[i] < t[i + 1]
    IN [i \in 1..n |-> [key |-> sorted[i], count |-> CountEqual(rows, col, sorted[i])]]

\* lines 206 and 394, in ASCII letters
day_names == <<"Pazartesi", "Sali", "Carsamba", "Persembe", "Cuma", "Cumartesi", "Pazar">>

\* a month label is the format with the number of the month since 1970-01
get_messages_by_month ==
    LET op == "get_messages_by_month"
        monthly == GroupSizes(messages.rows, "month")
    IN IF "datetime" \notin messages.cols THEN Returned(op, None, EmptyFrame)
       ELSE Returned(op, None,
                [cols |-> {"month", "count"},
                 rows |-> [i \in Indices(monthly) |->
                             [month |-> <<"%Y-%m", monthly[i].key>>,
                              count |-> monthly[i].count]]])

get_messages_by_day_of_week ==
    LET op == "get_messages_by_day_of_week"
        daily == GroupSizes(messages.rows, "day_of_week")
    IN IF "day_of_week" \notin messages.cols THEN Returned(op, None, EmptyFrame)
       ELSE Returned(op, None,
                [cols |-> {"day_name", "count"},
                 rows |-> [i \in Indices(daily) |->
                             [day_name |-> day_names[daily[i].key + 1],
                              count |-> daily[i].count]]])

get_messages_by_hour ==
    LET op == "get_messages_by_hour"
        hourly == GroupSizes(messages.rows, "hour")
    IN IF "hour" \notin messages.cols THEN Returned(op, None, EmptyFrame)
       ELSE Returned(op, None,
                [cols |-> {"hour", "count"},
                 rows |-> [i \in Indices(hourly) |->
                             [hour |-> hourly[i].key, count |-> hourly[i].count]]])

\* groupby(['day_of_week', 'hour']).size().unstack(fill_value=0): a frame is
\* its index, its columns and its cells
get_activity_heatmap_data ==
    LET op == "get_activity_heatmap_data"
        rows == messages.rows
        days == GroupSizes(SelectSeq(rows, LAMBDA r : ~IsNa(r.hour)), "day_of_week")
        hours == GroupSizes(SelectSeq(rows, LAMBDA r : ~IsNa(r.day_of_week)), "hour")
    IN IF "day_of_week" \notin messages.cols \/ "hour" \notin messages.cols
       THEN Returned(op, None, [index |-> <<>>, columns |-> <<>>, cells |-> <<>>])
       ELSE Returned(op, None,
                [index |-> [i \in Indices(days) |-> day_names[days[i].key + 1]],
                 columns |-> [j \in Indices(hours) |-> hours[j].key],
                 cells |-> [i \in Indices(days) |-> [j \in Indices(hours) |->
                              Cardinality({k \in Indices(rows) :
                                  /\ rows[k].day_of_week = Some(days[i].key)
                                  /\ rows[k].hour = Some(hours[j].key)})]]])

-----------------------------------------------------------------------------
(* The analyzer over a message table: the rollups *)

\* no datetime, two times of 1 January 1970 (a Thursday), Monday 5 January
\* and Sunday 1 February
IsRollupTable(df) ==
    \E k \in 1..MaxChatMsgs :
        \E cells \in [1..k -> [chat_id : {Some(DirectJid)}, from_me : {Some(0)},
                               datetime : {None, Some(0), Some(1), Some(4 * TicksPerDay),
                                           Some(31 * TicksPerDay + 1)},
                               media_type : {Some(0)}, message_text : {None}]] :
            df = MakeTable(TableCols, cells)

InitRollups ==
    /\ msgstore = <<>>
    /\ IsRollupTable(messages_df)
    /\ messages = AnalyzerInit(messages_df)
    /\ contacts = NoTable
    /\ groups = NoTable
    /\ media = NoTable
    /\ lid_map = NoTable
    /\ last = NoCall
    /\ app = NoApp

CallGetMessagesByMonth ==
    /\ messages.loaded
    /\ last' = get_messages_by_month
    /\ UNCHANGED <<msgstore, messages_df, messages, contacts, groups, media, lid_map, app>>

CallGetMessagesByDayOfWeek ==
    /\ messages.loaded
    /\ last' = get_messages_by_day_of_week
    /\ UNCHANGED <<msgstore, messages_df, messages, contacts, groups, media, lid_map, app>>

CallGetMessagesByHour ==
    /\ messages.loaded
    /\ last' = get_messages_by_hour
    /\ UNCHANGED <<msgstore, messages_df, messages, contacts, groups, media, lid_map, app>>

CallGetActivityHeatmapData ==
    /\ messages.loaded
    /\ last' = get_activity_heatmap_data
    /\ UNCHANGED <<msgstore, messages_df, messages, contacts, groups, media, lid_map, app>>

NextRollups ==
    \/ CallGetMessagesByMonth
    \/ CallGetMessagesByDayOfWeek
    \/ CallGetMessagesByHour
    \/ CallGetActivityHeatmapData
    \/ CallGetGeneralStatistics

SpecRollups == InitRollups /\ [][NextRollups]_vars

\* the messages with a valid datetime, and what the calendar says of them
Dated == {i \in Indices(Rows) : ~IsNa(Rows[i].datetime)}
WeekdayOf(i) == ((Val(Rows[i].datetime) \div TicksPerDay) + 3) % 7
HourOfDay(i) == ((Val(Rows[i].datetime) % TicksPerDay) * 24) \div TicksPerDay
CountSum(rows) == SumOver(Indices(rows), [i \in Indices(rows) |-> rows[i].count])
MondayFirst == <<"Pazartesi", "Sali", "Carsamba", "Persembe", "Cuma", "Cumartesi", "Pazar">>

\* C19: the counts of get_messages_by_month, get_messages_by_hour,
\* get_messages_by_day_of_week and of the cells of get_activity_heatmap_data
\* each sum to the number of messages with a valid datetime; every hour is in
\* 0..23 and every weekday one of the seven, Monday first, with the count of
\* the messages of that hour or weekday; total_messages counts all messages.
C19_RollupsCountValidDatetimes ==
    /\ last.op \in {"get_messages_by_month", "get_messages_by_hour",
                    "get_messages_by_day_of_week"} =>
          /\ last.raised = ""
          /\ CountSum(last.value.rows) = Cardinality(Dated)
          /\ \A i \in Indices(last.value.rows) : last.value.rows[i].count > 0
    /\ last.op = "get_messages_by_hour" =>
          \A i \in Indices(last.value.rows) :
              LET row == last.value.rows[i]
              IN /\ row.hour \in 0..23
                 /\ row.count = Cardinality({m \in Dated : HourOfDay(m) = row.hour})
                 /\ \A j \in Indices(last.value.rows) :
                       i < j => row.hour < last.value.rows[j].hour
    /\ last.op = "get_messages_by_day_of_week" =>
          \A i \in Indices(last.value.rows) :
              LET row == last.value.rows[i]
              IN \E d \in 0..6 :
                    /\ row.day_name = MondayFirst[d + 1]
                    /\ row.count = Cardinality({m \in Dated : WeekdayOf(m) = d})
                    /\ \A j \in Indices(last.value.rows) : \A e \in 0..6 :
                          (i < j /\ last.value.rows[j].day_name = MondayFirst[e + 1])
                              => d < e
    /\ last.op = "get_activity_heatmap_data" =>
          /\ last.raised = ""
          /\ LET frame == last.value
                 S == Indices(frame.index) \X Indices(frame.columns)
             IN /\ SumOver(S, [x \in S |-> frame.cells[x[1]][x[2]]]) = Cardinality(Dated)
                /\ \A j \in Indices(frame.columns) : frame.columns[j] \in 0..23
                /\ \A i \in Indices(frame.index) :
                      \E d \in 0..6 : frame.index[i] = MondayFirst[d + 1]
                /\ \A x \in S :
                      frame.cells[x[1]][x[2]] =
                          Cardinality({m \in Dated :
                              /\ MondayFirst[WeekdayOf(m) + 1] = frame.index[x[1]]
                              /\ HourOfDay(m) = frame.columns[x[2]]})
    /\ IsStatistics => last.value["total_messages"] = Len(Rows)
C19_Witness ==
    /\ last.op = "get_messages_by_day_of_week" /\ last.raised = ""
    /\ Len(Rows) = 3
    /\ Rows[1].datetime = None
    /\ Rows[2].datetime = Some(0)
    /\ Rows[3].datetime = Some(4 * TicksPerDay)
    /\ last.value.rows = <<[day_name |-> "Pazartesi", count |-> 1],
                           [day_name |-> "Persembe", count |-> 1]>>

-----------------------------------------------------------------------------
(* WhatsAppAnalyzer.get_group_statistics *)

\* lines 272-274: x.split('@')[0] if '@' in x else x
GroupLabel(group_id) ==
    IF Contains(group_id, AT) THEN SplitAtFirst(group_id) ELSE group_id

\* the whole method: the results it can give
get_group_statistics ==
    LET op == "get_group_statistics"
        group_messages == SelectSeq(messages.rows, LAMBDA r : r.is_group)
        stats(c) ==
            LET of == ChatRows(group_messages, c)
            IN [group_id |-> c,
                total_messages |-> Len(of),
                first_message |-> IF ValidDates(of) = {} THEN None
                                  ELSE Some(Min(ValidDates(of))),
                last_message |-> IF ValidDates(of) = {} THEN None
                                 ELSE Some(Max(ValidDates(of))),
                group_name |-> GroupLabel(c)]
    IN IF "is_group" \notin messages.cols THEN {Returned(op, None, EmptyFrame)}
       ELSE IF group_messages = <<>> THEN {Returned(op, None, EmptyFrame)}
       ELSE IF {"chat_id", "message_id", "datetime"} \ messages.cols # {}
       THEN {Raised(op, None, "KeyError")}
       ELSE {Returned(op, None,
                      [cols |-> {"group_id", "total_messages", "first_message",
                                 "last_message", "group_name"},
                       rows |-> sorted]) :
               sorted \in SortDescending({stats(c) : c \in ChatKeys(group_messages)},
                                         "total_messages")}

-----------------------------------------------------------------------------
(* The analyzer over a message table and a Group dataset *)

\* the Group dataset of get_groups: absent, or one row for the group 5@g.us
\* with its recorded subject, or with the label get_groups fills in
InitGroups ==
    /\ msgstore = <<>>
    /\ \E k \in 1..MaxChatMsgs :
         \E cells \in [1..k -> [chat_id : {Some(DirectJid), Some(GroupJid),
                                           Some(<<"6">> \o GroupMarker)},
                                from_me : {Some(0)},
                                datetime : {None, Some(0), Some(1)},
                                media_type : {Some(0)}, message_text : {None}]] :
             messages_df = MakeTable(TableCols, cells)
    /\ messages = AnalyzerInit(messages_df)
    /\ contacts = NoTable
    /\ \E group_name \in {<<>>, <<"Family">>, <<"5">>} :
          groups = IF group_name = <<>> THEN NoTable
                   ELSE [cols |-> {"chat_row_id", "group_id", "group_name",
                                   "created_timestamp"},
                         rows |-> <<[group_id |-> Some(GroupJid),
                                     group_name |-> Some(group_name)]>>]
    /\ media = NoTable
    /\ lid_map = NoTable
    /\ last = NoCall
    /\ app = NoApp

CallGetGroupStatistics ==
    /\ messages.loaded
    /\ last' \in get_group_statistics
    /\ UNCHANGED <<msgstore, messages_df, messages, contacts, groups, media, lid_map, app>>

SpecGroups == InitGroups /\ [][CallGetGroupStatistics]_vars

\* the rows of the Group dataset for a group
GroupRowsOf(group_id) == SelectSeq(groups.rows, LAMBDA g : g.group_id = Some(group_id))

\* C21: in the table of get_group_statistics the display name of a group is
\* the group_name the Group dataset records for its group_id when it has a
\* row for it, and the text before '@' only when it has none; every row is a
\* group chat and the rows are in descending order of message count.
C21_GroupNames ==
    (last.op = "get_group_statistics" /\ last.raised = "") =>
        LET stats == last.value.rows
        IN /\ \A i \in Indices(stats) :
                 /\ is_group_of(Some(stats[i].group_id))
                 /\ stats[i].group_name =
                       IF GroupRowsOf(stats[i].group_id) # <<>>
                       THEN Val(GroupRowsOf(stats[i].group_id)[1].group_name)
                       ELSE SplitAtFirst(stats[i].group_id)
           /\ \A i \in 1..(Len(stats) - 1) :
                 stats[i].total_messages >= stats[i + 1].total_messages

-----------------------------------------------------------------------------
(* From the message store to the message table: the group flag *)

\* database_reader.py line 257: raw_string LIKE '%@g.us', the identifier ends
\* with '@g.us'; LIKE does not tell the case of ASCII letters apart
LikeGroupSuffix(raw_string) ==
    /\ ~IsNa(raw_string)
    /\ Len(Val(raw_string)) >= 2
    /\ Val(raw_string)[Len(Val(raw_string)) - 1] = "@"
    /\ Val(raw_string)[Len(Val(raw_string))] \in {"g.us", "G.US"}

\* the chats of the message store: no identifier, a direct chat, a group,
\* '5@g_us' (another character in the place of the dot), '5@g.us' with a
\* continuation and the group suffix in capitals
InitReader ==
    /\ \E k \in 0..MaxMsgs :
         \E cells \in [1..k -> [chat_row_id : {0, 1}, from_me : {Some(0)},
                                timestamp : {Some(0)}, message_type : {Some(0)},
                                chat_jid : {None, Some(DirectJid), Some(GroupJid),
                                            Some(<<"5", "@", "g_us">>),
                                            Some(GroupJid \o <<"x">>),
                                            Some(<<"5", "@", "G.US">>)}]] :
             msgstore = MakeStore(cells)
    /\ messages_df = NoTable
    /\ messages = NoMessages
    /\ contacts = NoTable
    /\ groups = NoTable
    /\ media = NoTable
    /\ lid_map = NoTable
    /\ last = NoCall
    /\ app = NoApp

SpecReader == InitReader /\ [][RunAnalyze \/ RunNoMessages]_vars

\* C22: in every row of get_messages, is_group is true exactly when chat_id
\* ends with the group suffix '@g.us' by which get_groups selects the groups,
\* false otherwise and for a null chat_id; two messages with the same
\* chat_id have the same is_group.
C22_GroupFlagIsSuffix ==
    messages.loaded =>
        /\ \A i \in Indices(messages_df.rows) :
              messages_df.rows[i].is_group <=> LikeGroupSuffix(messages_df.rows[i].chat_id)
        /\ \A i, j \in Indices(messages_df.rows) :
              messages_df.rows[i].chat_id = messages_df.rows[j].chat_id =>
                  messages_df.rows[i].is_group = messages_df.rows[j].is_group

-----------------------------------------------------------------------------
(* WhatsAppAnalyzer.get_word_frequency *)

\* lines 319-327: the texts of the messages that have one, in table order
extract_text_content ==
    IF "message_text" \notin messages.cols THEN <<>>
    ELSE LET texts == SelectSeq(messages.rows, LAMBDA r : ~IsNa(r.message_text))
         IN [i \in Indices(texts) |-> Val(texts[i].message_text)]

\* line 337: re.findall(r'\b[\w...]+\b', s): the maximal runs of word
\* characters, left to right; space and punctuation are not word characters
RECURSIVE FindAll(_)
FindAll(s) ==
    LET word(c) == c \notin {" ", "-", ".", ",", "(", ")", "*", "?"}
        n == IF \E i \in Indices(s) : ~word(s[i])
             THEN Min({i \in Indices(s) : ~word(s[i])}) - 1
             ELSE Len(s)
    IN IF s = <<>> THEN <<>>
       ELSE IF n = 0 THEN FindAll(Tail(s))
       ELSE <<SubSeq(s, 1, n)>> \o FindAll(SubSeq(s, n + 1, Len(s)))

\* a filter without stop words
stop_words_Empty == {}

\* lines 343-347, the letters with a diacritic spelled out
stop_words ==
    {<<"b", "i", "r">>, <<"b", "u">>, <<"s-cedilla", "u">>, <<"v", "e">>,
     <<"v", "e", "y", "a">>, <<"a", "m", "a">>, <<"f", "a", "k", "a", "t">>,
     <<"i", "c-cedilla", "i", "n">>, <<"i", "l", "e">>, <<"m", "i">>,
     <<"m", "u">>, <<"m", "dotless-i">>, <<"m", "u-umlaut">>, <<"d", "a">>,
     <<"d", "e">>, <<"t", "a">>, <<"t", "e">>, <<"k", "i">>, <<"n", "e">>,
     <<"v", "a", "r">>, <<"y", "o", "k">>, <<"b", "e", "n">>,
     <<"s", "e", "n">>, <<"o">>, <<"b", "i", "z">>, <<"s", "i", "z">>,
     <<"o", "n", "l", "a", "r">>, <<"t", "h", "e">>, <<"a">>, <<"a", "n">>,
     <<"a", "n", "d">>, <<"o", "r">>, <<"b", "u", "t">>, <<"i", "s">>,
     <<"a", "r", "e">>, <<"w", "a", "s">>, <<"w", "e", "r", "e">>,
     <<"b", "e", "e", "n">>, <<"b", "e">>, <<"h", "a", "v", "e">>,
     <<"h", "a", "s">>, <<"h", "a", "d">>, <<"d", "o">>,
     <<"d", "o", "e", "s">>, <<"d", "i", "d">>, <<"w", "i", "l", "l">>,
     <<"w", "o", "u", "l", "d">>, <<"c", "o", "u", "l", "d">>,
     <<"s", "h", "o", "u", "l", "d">>}

\* ties put in the order of the last occurrence
most_common_LastSeenFirst(words, limit) ==
    LET S == {words[i] : i \in Indices(words)}
        count(w) == Cardinality({i \in Indices(words) : words[i] = w})
        seen(w) == Max({i \in Indices(words) : words[i] = w})
        rank(w) == 1 + Cardinality({v \in S : \/ count(v) > count(w)
                                              \/ count(v) = count(w) /\ seen(v) > seen(w)})
    IN Head_([i \in 1..Cardinality(S) |->
                LET w == CHOOSE v \in S : rank(v) = i
                IN [word |-> w, frequency |-> count(w)]], limit)

\* line 352: Counter(words).most_common(limit): by descending count, equal
\* counts in the order in which the words were first counted
most_common(words, limit) ==
    LET S == {words[i] : i \in Indices(words)}
        count(w) == Cardinality({i \in Indices(words) : words[i] = w})
        first(w) == Min({i \in Indices(words) : words[i] = w})
        rank(w) == 1 + Cardinality({v \in S : \/ count(v) > count(w)
                                              \/ count(v) = count(w) /\ first(v) < first(w)})
    IN Head_([i \in 1..Cardinality(S) |->
                LET w == CHOOSE v \in S : rank(v) = i
                IN [word |-> w, frequency |-> count(w)]], limit)

\* line 334: the continuation of ' '.join(texts) after its first text
RECURSIVE JoinTexts(_)
JoinTexts(texts) ==
    IF texts = <<>> THEN <<>> ELSE <<" ">> \o Head(texts) \o JoinTexts(Tail(texts))

\* the whole method
get_word_frequency(limit) ==
    LET texts == extract_text_content
        all_text == IF texts = <<>> THEN <<>>
                    ELSE texts[1] \o JoinTexts(SubSeq(texts, 2, Len(texts)))
        words == SelectSeq(FindAll(Lower(all_text)),
                           LAMBDA w : Len(w) > 2 /\ w \notin stop_words)
    IN Returned("get_word_frequency", Some(limit),
                [cols |-> {"word", "frequency"}, rows |-> most_common(words, limit)])

-----------------------------------------------------------------------------
(* The analyzer over a message table: the words *)

\* no text, 'Bir bir test test test', 'cat Test', 'the cat ok', 'dog-cat', 'dog'
InitWords ==
    /\ msgstore = <<>>
    /\ \E k \in 1..MaxChatMsgs :
         \E cells \in [1..k ->
                 [chat_id : {Some(DirectJid)}, from_me : {Some(0)},
                  datetime : {Some(0)}, media_type : {Some(0)},
                  message_text :
                     {None,
                      Some(<<"B", "i", "r", " ", "b", "i", "r", " ", "t", "e", "s", "t", " ",
                             "t", "e", "s", "t", " ", "t", "e", "s", "t">>),
                      Some(<<"c", "a", "t", " ", "T", "e", "s", "t">>),
                      Some(<<"t", "h", "e", " ", "c", "a", "t", " ", "o", "k">>),
                      Some(<<"d", "o", "g", "-", "c", "a", "t">>),
                      Some(<<"d", "o", "g">>)}]] :
             messages_df = MakeTable(TableCols, cells)
    /\ messages = AnalyzerInit(messages_df)
    /\ contacts = NoTable
    /\ groups = NoTable
    /\ media = NoTable
    /\ lid_map = NoTable
    /\ last = NoCall
    /\ app = NoApp

CallGetWordFrequency ==
    /\ messages.loaded
    /\ \E limit \in 0..(MaxLimit + 1) : last' = get_word_frequency(limit)
    /\ UNCHANGED <<msgstore, messages_df, messages, contacts, groups, media, lid_map, app>>

SpecWords == InitWords /\ [][CallGetWordFrequency]_vars

IsWordFrequency == last.op = "get_word_frequency" /\ last.raised = ""
Separators == {" ", "-"}
Capitals == {"B", "C", "H", "T"}
\* the text of message i in small letters, "" when it has none
SmallText(i) == IF IsNa(Rows[i].message_text) THEN <<>> ELSE Lower(Val(Rows[i].message_text))
\* the word w stands in message i at position p, between separators
StandsAt(w, i, p) ==
    LET s == SmallText(i)
    IN /\ p + Len(w) - 1 <= Len(s)
       /\ SubSeq(s, p, p + Len(w) - 1) = w
       /\ (p = 1 \/ s[p - 1] \in Separators)
       /\ (p + Len(w) - 1 = Len(s) \/ s[p + Len(w)] \in Separators)
       /\ \A k \in 1..Len(w) : w[k] \notin Separators
Positions == UNION {{<<i, p>> : p \in 1..Len(SmallText(i))} : i \in Indices(Rows)}
Places(w) == {x \in Positions : StandsAt(w, x[1], x[2])}
\* the place of the first occurrence of a word in the message sequence
FirstPlace(w) ==
    CHOOSE x \in Places(w) :
        \A y \in Places(w) : x[1] < y[1] \/ (x[1] = y[1] /\ x[2] <= y[2])
Earlier(x, y) == x[1] < y[1] \/ (x[1] = y[1] /\ x[2] < y[2])
\* the words that the messages hold, of any length
WordsOfMessages ==
    UNION {{SubSeq(SmallText(x[1]), x[2], q) :
               q \in {r \in x[2]..Len(SmallText(x[1])) :
                        StandsAt(SubSeq(SmallText(x[1]), x[2], r), x[1], x[2])}} :
           x \in Positions}
WordRows == last.value.rows
WordsReturned == {WordRows[i].word : i \in Indices(WordRows)}

\* C23: get_word_frequency never returns a stop word or a word of 2 letters
\* or fewer, counts in small letters, and gives each returned word the number
\* of its occurrences in the messages; for the one text 'Bir bir test test
\* test' the top row is ('test', 3) and 'bir' is not returned.
C23_WordCounts ==
    IsWordFrequency =>
        /\ \A i \in Indices(WordRows) :
              /\ WordRows[i].word \notin stop_words
              /\ WordRows[i].word # <<"b", "i", "r">>
              /\ Len(WordRows[i].word) > 2
              /\ \A k \in 1..Len(WordRows[i].word) : WordRows[i].word[k] \notin Capitals
              /\ WordRows[i].frequency = Cardinality(Places(WordRows[i].word))
              /\ WordRows[i].frequency > 0
        /\ (Len(Rows) = 1 /\ Val(last.arg) >= 1
            /\ SmallText(1) = <<"b", "i", "r", " ", "b", "i", "r", " ", "t", "e", "s", "t", " ",
                                "t", "e", "s", "t", " ", "t", "e", "s", "t">>) =>
              WordRows = <<[word |-> <<"t", "e", "s", "t">>, frequency |-> 3]>>
C23_Witness ==
    /\ IsWordFrequency /\ Val(last.arg) = 2
    /\ Len(Rows) = 2
    /\ Rows[1].message_text =
          Some(<<"B", "i", "r", " ", "b", "i", "r", " ", "t", "e", "s", "t", " ",
                 "t", "e", "s", "t", " ", "t", "e", "s", "t">>)
    /\ Rows[2].message_text = Some(<<"c", "a", "t", " ", "T", "e", "s", "t">>)
    /\ WordRows = <<[word |-> <<"t", "e", "s", "t">>, frequency |-> 4],
                    [word |-> <<"c", "a", "t">>, frequency |-> 1]>>

\* C24: get_word_frequency(limit) returns at most limit rows, in descending
\* order of frequency, words of equal frequency in the order of their first
\* occurrence in the message sequence; no word left out has a higher
\* frequency than a returned word, and no word is returned twice.
C24_TopWords ==
    IsWordFrequency =>
        LET limit == Val(last.arg)
            eligible == {w \in WordsOfMessages : Len(w) > 2 /\ w \notin stop_words}
        IN /\ Len(WordRows) = IF limit < Cardinality(eligible) THEN limit
                              ELSE Cardinality(eligible)
           /\ WordsReturned \subseteq eligible
           /\ Cardinality(WordsReturned) = Len(WordRows)
           /\ \A i \in 1..(Len(WordRows) - 1) :
                 \/ WordRows[i].frequency > WordRows[i + 1].frequency
                 \/ /\ WordRows[i].frequency = WordRows[i + 1].frequency
                    /\ Earlier(FirstPlace(WordRows[i].word), FirstPlace(WordRows[i + 1].word))
           /\ \A w \in eligible \ WordsReturned : \A i \in Indices(WordRows) :
                 \/ Cardinality(Places(w)) < WordRows[i].frequency
                 \/ /\ Cardinality(Places(w)) = WordRows[i].frequency
                    /\ Earlier(FirstPlace(WordRows[i].word), FirstPlace(w))
C24_Witness ==
    /\ IsWordFrequency /\ Val(last.arg) = 2
    /\ Len(Rows) = 2
    /\ Rows[1].message_text = Some(<<"d", "o", "g", "-", "c", "a", "t">>)
    /\ Rows[2].message_text = Some(<<"c", "a", "t", " ", "T", "e", "s", "t">>)
    /\ WordRows = <<[word |-> <<"c", "a", "t">>, frequency |-> 2],
                    [word |-> <<"d", "o", "g">>, frequency |-> 1]>>

-----------------------------------------------------------------------------
(* WhatsAppAnalyzer.get_recent_messages and get_first_messages *)

\* a selection that takes the first row of each chat as the table has it
PerChatMessages_TableOrder(op, ascending, limit) ==
    LET rows == messages.rows
        keys == ChatKeys(rows)
        leq(a, b) == IsNa(b) \/ (~IsNa(a) /\ IF ascending THEN Val(a) <= Val(b)
                                              ELSE Val(a) >= Val(b))
        sorted(S) == {t \in [1..Cardinality(S) -> S] :
                        /\ \A i, j \in DOMAIN t : i # j => t[i] # t[j]
                        /\ \A i, j \in DOMAIN t : i < j => leq(t[i].datetime, t[j].datetime)}
        picks == {f \in [keys -> {rows[i] : i \in Indices(rows)}] :
                    \A c \in keys : f[c] = ChatRows(rows, c)[1]}
    IN IF "datetime" \notin messages.cols THEN {Returned(op, Some(limit), EmptyFrame)}
       ELSE IF "chat_id" \notin messages.cols THEN {Raised(op, Some(limit), "KeyError")}
       ELSE IF keys = {} THEN {Returned(op, Some(limit), EmptyFrame)}
       ELSE IF {"from_me", "message_text", "media_type"} \ messages.cols # {}
       THEN {Raised(op, Some(limit), "KeyError")}
       ELSE UNION {{Returned(op, Some(limit),
                       [cols |-> {"chat_id", "from_me", "datetime", "message_text",
                                  "media_type"},
                        rows |-> Head_([i \in DOMAIN t |->
                                          [chat_id |-> t[i].chat_id,
                                           from_me |-> t[i].from_me,
                                           datetime |-> t[i].datetime,
                                           message_text |-> t[i].message_text,
                                           media_type |-> t[i].media_type]], limit)]) :
                     t \in sorted({f[c] : c \in keys})} : f \in picks}

\* lines 500-522 and 524-546, which differ in the direction of the two sorts:
\* for every non-null chat_id the first row of the chat sorted by datetime,
\* these rows sorted by datetime, the first limit of them; a sort puts the
\* rows without datetime last and leaves the order of equal keys open
PerChatMessages(op, ascending, limit) ==
    LET rows == messages.rows
        keys == ChatKeys(rows)
        leq(a, b) == IsNa(b) \/ (~IsNa(a) /\ IF ascending THEN Val(a) <= Val(b)
                                              ELSE Val(a) >= Val(b))
        sorted(S) == {t \in [1..Cardinality(S) -> S] :
                        /\ \A i, j \in DOMAIN t : i # j => t[i] # t[j]
                        /\ \A i, j \in DOMAIN t : i < j => leq(t[i].datetime, t[j].datetime)}
        picks == {f \in [keys -> {rows[i] : i \in Indices(rows)}] :
                    \A c \in keys :
                        /\ f[c].chat_id = Some(c)
                        /\ \A i \in Indices(rows) :
                              rows[i].chat_id = Some(c) => leq(f[c].datetime, rows[i].datetime)}
    IN IF "datetime" \notin messages.cols THEN {Returned(op, Some(limit), EmptyFrame)}
       ELSE IF "chat_id" \notin messages.cols THEN {Raised(op, Some(limit), "KeyError")}
       ELSE IF keys = {} THEN {Returned(op, Some(limit), EmptyFrame)}
       ELSE IF {"from_me", "message_text", "media_type"} \ messages.cols # {}
       THEN {Raised(op, Some(limit), "KeyError")}
       ELSE UNION {{Returned(op, Some(limit),
                       [cols |-> {"chat_id", "from_me", "datetime", "message_text",
                                  "media_type"},
                        rows |-> Head_([i \in DOMAIN t |->
                                          [chat_id |-> t[i].chat_id,
                                           from_me |-> t[i].from_me,
                                           datetime |-> t[i].datetime,
                                           message_text |-> t[i].message_text,
                                           media_type |-> t[i].media_type]], limit)]) :
                     t \in sorted({f[c] : c \in keys})} : f \in picks}

-----------------------------------------------------------------------------
(* The analyzer over a message table: one message per chat *)

InitRecent ==
    /\ msgstore = <<>>
    /\ \E k \in 1..MaxChatMsgs :
         \E cells \in [1..k -> [chat_id : {None, Some(DirectJid), Some(GroupJid)},
                                from_me : {Some(0)},
                                datetime : {None, Some(0), Some(1)},
                                media_type : {Some(0)}, message_text : {None}]] :
             messages_df = MakeTable(TableCols, cells)
    /\ messages = AnalyzerInit(messages_df)
    /\ contacts = NoTable
    /\ groups = NoTable
    /\ media = NoTable
    /\ lid_map = NoTable
    /\ last = NoCall
    /\ app = NoApp

CallGetRecentMessages ==
    /\ messages.loaded
    /\ \E limit \in 0..MaxLimit :
          last' \in PerChatMessages("get_recent_messages", FALSE, limit)
    /\ UNCHANGED <<msgstore, messages_df, messages, contacts, groups, media, lid_map, app>>

CallGetFirstMessages ==
    /\ messages.loaded
    /\ \E limit \in 0..MaxLimit :
          last' \in PerChatMessages("get_first_messages", TRUE, limit)
    /\ UNCHANGED <<msgstore, messages_df, messages, contacts, groups, media, lid_map, app>>

SpecRecent == InitRecent /\ [][CallGetRecentMessages \/ CallGetFirstMessages]_vars

\* the distinct non-null chat_ids, and the known times of one chat
AllChats == ChatKeys(Rows)
TimesOf(chat_id) == ValidDates(ChatRows(Rows, chat_id))
\* the time of the chat's chronologically last, or first, message
LastTimeOf(chat_id) ==
    IF TimesOf(chat_id) = {} THEN None ELSE Some(Max(TimesOf(chat_id)))
FirstTimeOf(chat_id) ==
    IF TimesOf(chat_id) = {} THEN None ELSE Some(Min(TimesOf(chat_id)))

\* C25: get_recent_messages(limit) returns one row for each distinct non-null
\* chat_id, up to limit rows, the row of a chat being its chronologically last
\* message, in descending order of time, so that the chats kept are those
\* with the most recent last message; get_first_messages is the same with
\* the chronologically first message and ascending order.  A chat none of
\* whose messages has a time comes after the others.
C25_OnePerChat ==
    (last.op \in {"get_recent_messages", "get_first_messages"}) =>
        LET recent == last.op = "get_recent_messages"
            out == IF last.raised = "" THEN last.value.rows ELSE <<>>
            limit == Val(last.arg)
            time(c) == IF recent THEN LastTimeOf(c) ELSE FirstTimeOf(c)
            \* a comes no later than b in the order of the result
            before(a, b) == IsNa(b) \/ (~IsNa(a) /\ IF recent THEN Val(a) >= Val(b)
                                                     ELSE Val(a) <= Val(b))
            given == {Val(out[i].chat_id) : i \in Indices(out)}
        IN /\ last.raised = ""
           /\ Len(out) = IF limit < Cardinality(AllChats) THEN limit
                         ELSE Cardinality(AllChats)
           /\ \A i \in Indices(out) : ~IsNa(out[i].chat_id)
           /\ Cardinality(given) = Len(out) /\ given \subseteq AllChats
           /\ \A i \in Indices(out) :
                 /\ out[i].datetime = time(Val(out[i].chat_id))
                 /\ \E k \in Indices(Rows) :
                       /\ Rows[k].chat_id = out[i].chat_id
                       /\ Rows[k].datetime = out[i].datetime
                       /\ Rows[k].from_me = out[i].from_me
                       /\ Rows[k].message_text = out[i].message_text
                       /\ Rows[k].media_type = out[i].media_type
           /\ \A i, j \in Indices(out) : i < j => before(out[i].datetime, out[j].datetime)
           /\ \A c \in AllChats \ given : \A i \in Indices(out) :
                 before(out[i].datetime, time(c))
C25_Witness ==
    /\ last.op = "get_recent_messages" /\ last.raised = "" /\ Val(last.arg) = 1
    /\ Len(Rows) = 3
    /\ Rows[1].chat_id = Some(DirectJid) /\ Rows[1].datetime = Some(1)
    /\ Rows[2].chat_id = Some(GroupJid) /\ Rows[2].datetime = Some(0)
    /\ Rows[3].chat_id = Some(DirectJid) /\ Rows[3].datetime = Some(0)
    /\ Len(last.value.rows) = 1
    /\ last.value.rows[1].chat_id = Some(DirectJid)
    /\ last.value.rows[1].datetime = Some(1)

-----------------------------------------------------------------------------
(* The analyzer over a message table: the keyword search *)

\* no text, 'Hi', 'h.' and 'yo'
InitKeyword ==
    /\ msgstore = <<>>
    /\ \E k \in 1..MaxChatMsgs :
         \E cells \in [1..k -> [chat_id : {Some(DirectJid)}, from_me : {Some(0)},
                                datetime : {Some(0)}, media_type : {Some(0)},
                                message_text : {None, Some(<<"H", "i">>),
                                                Some(<<"h", ".">>),
                                                Some(<<"y", "o">>)}]] :
             messages_df = MakeTable(TableCols, cells)
    /\ messages = AnalyzerInit(messages_df)
    /\ contacts = NoTable
    /\ groups = NoTable
    /\ media = NoTable
    /\ lid_map = NoTable
    /\ last = NoCall
    /\ app = NoApp

\* a keyword of letters, or one with '.', '(', '*' or '?' in it
CallGetMessagesByAnyKeyword ==
    /\ messages.loaded
    /\ \E keyword \in {<<"H", "I">>, <<"o">>, <<"h", ".">>, <<"(">>, <<"*">>, <<"?">>,
                       <<"x", "*">>, <<"h", "?", "y">>} :
         \E limit \in 1..MaxLimit :
            last' = get_messages_by_keyword(messages, keyword, limit)
    /\ messages' = KeywordColumn(messages)
    /\ messages_df' = CallerTable(messages_df, messages')
    /\ UNCHANGED <<msgstore, contacts, groups, media, lid_map, app>>

SpecKeyword == InitKeyword /\ [][CallGetMessagesByAnyKeyword]_vars

\* the messages whose text holds the keyword as it is written, in small letters
EligibleFor(keyword) ==
    SelectSeq(Rows, LAMBDA r : /\ ~IsNa(r.message_text)
                               /\ Contains(Lower(Val(r.message_text)), Lower(keyword)))

\* C26: get_messages_by_keyword(keyword, limit) returns at most limit rows,
\* the first limit of the messages whose text contains the keyword as a
\* literal substring without regard to case, for every keyword, also one
\* with '.', '(', '*' or '?'; a message without text matches no keyword.
C26_LiteralSubstring ==
    last.op = "get_messages_by_keyword" =>
        LET keyword == Val(last.arg)[1]
            limit == Val(last.arg)[2]
            eligible == EligibleFor(keyword)
        IN /\ last.raised = ""
           /\ Len(last.value.rows) <= limit
           /\ last.value.rows =
                 Head_([i \in Indices(eligible) |->
                          [chat_id |-> eligible[i].chat_id,
                           from_me |-> eligible[i].from_me,
                           datetime |-> eligible[i].datetime,
                           message_text |-> eligible[i].message_text]], limit)
           /\ \A i \in Indices(last.value.rows) : ~IsNa(last.value.rows[i].message_text)

-----------------------------------------------------------------------------
(* WhatsAppAnalyzer.get_conversation_details_for_contact *)

\* the whole method; a mean is the fraction num / den, NaN is None
get_conversation_details_for_contact(chat_id) ==
    LET op == "get_conversation_details_for_contact"
        cols == messages.cols
        conv == ChatRows(messages.rows, chat_id)
        texts == SelectSeq(conv, LAMBDA r : ~IsNa(r.message_text))
        hours == GroupSizes(conv, "hour")
        name == get_contact_name(Some(chat_id))
    IN IF "chat_id" \notin cols THEN Returned(op, Some(chat_id), <<>>)
       ELSE IF conv = <<>> THEN Returned(op, Some(chat_id), <<>>)
       ELSE IF name.raised # "" THEN Raised(op, Some(chat_id), name.raised)
       ELSE IF "from_me" \notin cols THEN Raised(op, Some(chat_id), "KeyError")
       \* line 496: idxmax() of the sizes of no group
       ELSE IF "hour" \in cols /\ hours = <<>> THEN Raised(op, Some(chat_id), "ValueError")
       ELSE Returned(op, Some(chat_id),
              ("chat_id" :> chat_id)
              @@ ("contact_name" :> name.value)
              @@ ("total_messages" :> Len(conv))
              @@ ("sent_by_me" :> CountEqual(conv, "from_me", 1))
              @@ ("received" :> CountEqual(conv, "from_me", 0))
              @@ ("first_message" :>
                    IF "datetime" \notin cols \/ ValidDates(conv) = {} THEN None
                    ELSE Some(Min(ValidDates(conv))))
              @@ ("last_message" :>
                    IF "datetime" \notin cols \/ ValidDates(conv) = {} THEN None
                    ELSE Some(Max(ValidDates(conv))))
              @@ ("avg_message_length" :>
                    IF "message_text" \notin cols THEN Some([num |-> 0, den |-> 1])
                    ELSE IF texts = <<>> THEN None
                    ELSE Some([num |-> SumOver(Indices(texts),
                                         [i \in Indices(texts) |->
                                             Len(Val(texts[i].message_text))]),
                               den |-> Len(texts)]))
              @@ ("media_count" :>
                    IF "media_type" \in cols
                    THEN Cardinality({i \in Indices(conv) : IsMedia(conv[i])})
                    ELSE 0)
              @@ (IF "hour" \in cols
                  THEN "most_active_hour" :>
                         hours[Min({i \in Indices(hours) :
                                      \A j \in Indices(hours) :
                                          hours[j].count <= hours[i].count})].key
                  ELSE <<>>))

-----------------------------------------------------------------------------
(* The analyzer over a message table: the details of one chat *)

InitDetails ==
    /\ msgstore = <<>>
    /\ \E k \in 1..MaxMsgs :
         \E cells \in [1..k -> [chat_id : {Some(DirectJid), Some(GroupJid)},
                                from_me : {Some(0), Some(1)},
                                datetime : {None, Some(0), Some(1)},
                                media_type : {Some(0), Some(1)},
                                message_text : {None, Some(<<"H", "i">>)}]] :
             messages_df = MakeTable(TableCols, cells)
    /\ messages = AnalyzerInit(messages_df)
    /\ contacts = NoTable
    /\ groups = NoTable
    /\ media = NoTable
    /\ lid_map = NoTable
    /\ last = NoCall
    /\ app = NoApp

CallGetConversationDetailsForContact ==
    /\ messages.loaded
    /\ \E chat_id \in {DirectJid, GroupJid, LidJid} :
          last' = get_conversation_details_for_contact(chat_id)
    /\ UNCHANGED <<msgstore, messages_df, messages, contacts, groups, media, lid_map, app>>

SpecDetails == InitDetails /\ [][CallGetConversationDetailsForContact]_vars

\* C27: get_conversation_details_for_contact(chat_id) returns an empty
\* mapping when the chat has no messages; for a chat with a message it
\* returns, without raising, a summary whose total_messages is the number of
\* the chat's messages, also when all of them have no datetime or no text.
C27_DetailsOfChat ==
    last.op = "get_conversation_details_for_contact" =>
        LET count == Cardinality({i \in Indices(Rows) : Rows[i].chat_id = last.arg})
        IN /\ last.raised = ""
           /\ count = 0 => last.value = <<>>
           /\ count > 0 => /\ last.value # <<>>
                           /\ last.value["total_messages"] = count

-----------------------------------------------------------------------------
(* The float64 arithmetic of numpy and of total_seconds() / 60 *)

\* the k binary digits of a whole number below 2^k, the most significant
\* first, and the whole number that a few digits stand for
Digits(v, k) == [j \in 1..k |-> (v \div 2 ^ (k - j)) % 2]
RECURSIVE Value(_)
Value(b) == IF b = <<>> THEN 0 ELSE 2 * Value(SubSeq(b, 1, Len(b) - 1)) + b[Len(b)]
Zeros(k) == [i \in 1..k |-> 0]
StripZeros(b) ==
    IF \A i \in 1..Len(b) : b[i] = 0 THEN <<>>
    ELSE SubSeq(b, CHOOSE i \in 1..Len(b) : b[i] = 1 /\ \A j \in 1..(i - 1) : b[j] = 0,
                Len(b))
Bits(n) == StripZeros(Digits(n, 31))

\* the sum of two numbers of as many digits: a carry enters place i when a
\* place after it makes one and every place between passes it on
AddBits(x, y) ==
    LET n == Len(x)
        carry(i) == \E j \in (i + 1)..n :
                        /\ x[j] + y[j] = 2
                        /\ \A k \in (i + 1)..(j - 1) : x[k] + y[k] = 1
        digit(i) == (x[i] + y[i] + (IF carry(i) THEN 1 ELSE 0)) % 2
    IN (IF carry(0) THEN <<1>> ELSE <<>>) \o [i \in 1..n |-> digit(i)]

\* the quotient and the remainder of a number by a small divisor d, sixteen
\* digits at a time, from the remainder r of the digits before
RECURSIVE LongDiv(_, _, _)
LongDiv(b, d, r) ==
    IF b = <<>> THEN [q |-> <<>>, r |-> r]
    ELSE LET k == IF Len(b) < 16 THEN Len(b) ELSE 16
             x == r * 2 ^ k + Value(SubSeq(b, 1, k))
             rest == LongDiv(SubSeq(b, k + 1, Len(b)), d, x % d)
         IN [q |-> Digits(x \div d, k) \o rest.q, r |-> rest.r]

\* the binary digits of a float64 significand
SignificandBits == 53

\* a positive float64 is [m, e], the number m * 2^e with m of 53 digits.
\* Round gives the float64 nearest to q * 2^e (q of 55 digits or more, cut
\* short of the exact number when inexact), a tie going to the even
\* significand
Round(q, inexact, e) ==
    LET p == SignificandBits
        m == SubSeq(q, 1, p)
        sticky == inexact \/ \E i \in (p + 2)..Len(q) : q[i] = 1
        up == q[p + 1] = 1 /\ (sticky \/ m[p] = 1)
        inc == IF up THEN AddBits(m, Zeros(p - 1) \o <<1>>) ELSE m
    IN [m |-> SubSeq(inc, 1, p),
        e |-> e + (Len(q) - p) + (IF Len(inc) > p THEN 1 ELSE 0)]

\* x / d in float64, for the number x = n * 2^e and a small whole number d
float64_divide(n, e, d) ==
    LET res == LongDiv(n \o Zeros(64), d, 0)
    IN Round(StripZeros(res.q), res.r # 0, e - 64)

\* the number a + b itself, its digits as many as it takes
ExactSum(a, b) ==
    LET e == IF a.e < b.e THEN a.e ELSE b.e
        x == a.m \o Zeros(a.e - e)
        y == b.m \o Zeros(b.e - e)
        n == IF Len(x) > Len(y) THEN Len(x) ELSE Len(y)
    IN [m |-> AddBits(Zeros(n - Len(x)) \o x, Zeros(n - Len(y)) \o y), e |-> e]

\* a + b in float64
float64_add(a, b) ==
    LET s == ExactSum(a, b) IN Round(StripZeros(s.m) \o <<0, 0>>, FALSE, s.e - 2)

\* a <= b for the numbers a.m * 2^a.e and b.m * 2^b.e
float64_leq(a, b) ==
    LET e == IF a.e < b.e THEN a.e ELSE b.e
        x == StripZeros(a.m \o Zeros(a.e - e))
        y == StripZeros(b.m \o Zeros(b.e - e))
    IN \/ Len(x) < Len(y)
       \/ /\ Len(x) = Len(y)
          /\ \/ x = y
             \/ \E i \in 1..Len(x) : x[i] < y[i] /\ \A j \in 1..(i - 1) : x[j] = y[j]

\* np.add.reduce of fewer than eight items: one after the other
RECURSIVE float64_sum(_)
float64_sum(a) ==
    IF Len(a) = 1 THEN a[1]
    ELSE float64_add(float64_sum(SubSeq(a, 1, Len(a) - 1)), a[Len(a)])

\* a mean that leaves the sum undivided
np_mean_Undivided(a) == float64_sum(a)

\* np.mean: the sum of the items, divided by their number
np_mean(a) == LET s == float64_sum(a) IN float64_divide(s.m, s.e, Len(a))

\* the items in ascending order
np_sort(a) ==
    LET n == Len(a)
        p == CHOOSE f \in [1..n -> 1..n] :
                /\ \A i, j \in 1..n : i # j => f[i] # f[j]
                /\ \A i \in 1..(n - 1) : float64_leq(a[f[i]], a[f[i + 1]])
    IN [i \in 1..n |-> a[p[i]]]

\* np.median: the middle item, or the mean of the two middle items
np_median(a) ==
    LET n == Len(a)
        sorted == np_sort(a)
    IN IF n % 2 = 1 THEN sorted[(n + 1) \div 2]
       ELSE np_mean(<<sorted[n \div 2], sorted[(n \div 2) + 1]>>)

-----------------------------------------------------------------------------
(* WhatsAppAnalyzer.get_message_response_time_analysis, in float64 *)

\* Here a datetime counts seconds, so that a response time is a fraction of a
\* minute. The pairs of one sorted chat that lines 580-588 append, in order
Replies64(chat_msgs) ==
    LET window == float64_divide(Bits(ResponseWindowMinutes), 0, 1)
        time_diff(i) == float64_divide(Bits(Val(chat_msgs[i].datetime)
                                            - Val(chat_msgs[i - 1].datetime)), 0, 60)
        kept == {i \in 2..Len(chat_msgs) :
                    /\ chat_msgs[i - 1].from_me = Some(0) /\ chat_msgs[i].from_me = Some(1)
                    /\ ~IsNa(chat_msgs[i - 1].datetime) /\ ~IsNa(chat_msgs[i].datetime)
                    /\ Val(chat_msgs[i].datetime) > Val(chat_msgs[i - 1].datetime)
                    /\ float64_leq(time_diff(i), window) /\ time_diff(i) # window}
        order == CHOOSE f \in [1..Cardinality(kept) -> kept] :
                    \A i, j \in 1..Cardinality(kept) : i < j => f[i] < f[j]
    IN [i \in 1..Cardinality(kept) |-> time_diff(order[i])]

\* Series.unique(): the values in the order of their first rows
Unique(rows) ==
    LET keys == ChatKeys(rows)
        first(c) == Min({i \in Indices(rows) : rows[i].chat_id = Some(c)})
    IN CHOOSE f \in [1..Cardinality(keys) -> keys] :
          \A i, j \in 1..Cardinality(keys) : i < j => first(f[i]) < first(f[j])

RECURSIVE Concat(_)
Concat(lists) == IF lists = <<>> THEN <<>> ELSE Head(lists) \o Concat(Tail(lists))

\* sort_values('datetime') of every chat of the list: the orders it can give
RECURSIVE SortedChats(_, _)
SortedChats(rows, chats) ==
    IF chats = <<>> THEN {<<>>}
    ELSE {<<chat_msgs>> \o rest :
            chat_msgs \in SortValues(ChatRows(rows, Head(chats)), "datetime"),
            rest \in SortedChats(rows, Tail(chats))}

\* the whole method: the results it can give
response_time_analysis_float64 ==
    LET op == "get_message_response_time_analysis"
        rows == messages.rows
    IN IF "datetime" \notin messages.cols \/ "from_me" \notin messages.cols
       THEN {Returned(op, None, <<>>)}
       ELSE IF "chat_id" \notin messages.cols
       THEN {Raised(op, None, "KeyError")}
       ELSE {LET response_times == Concat([i \in 1..Len(sorted_chats) |->
                                             Replies64(sorted_chats[i])])
                 sorted == np_sort(response_times)
             IN IF response_times = <<>> THEN Returned(op, None, <<>>)
                ELSE Returned(op, None,
                       ("avg_response_time_minutes" :> np_mean(response_times))
                       @@ ("median_response_time_minutes" :> np_median(response_times))
                       @@ ("min_response_time_minutes" :> sorted[1])
                       @@ ("max_response_time_minutes" :> sorted[Len(sorted)])) :
              sorted_chats \in SortedChats(rows, Unique(rows))}

-----------------------------------------------------------------------------
(* The analyzer over a message table timed in seconds: the response times *)

MaxExchanges == 3

\* the date columns of a table whose datetimes count seconds
SecondsTable(df) ==
    [cols |-> df.cols \cup DateCols,
     rows |-> [i \in 1..Len(df.rows) |->
                 LET t == df.rows[i].datetime
                 IN IF IsNa(t) THEN df.rows[i]
                    ELSE [df.rows[i] EXCEPT !.date = Some(Val(t) \div 86400),
                                            !.month = Some(0),
                                            !.hour = Some((Val(t) % 86400) \div 3600),
                                            !.day_of_week = Some(((Val(t) \div 86400) + 3) % 7)]]]

\* every chat holds an inbound message at second 0 and, after it in the
\* table, nothing, a second inbound message, or an answer: without a time, at
\* once, after 6 or 7 seconds, or after a day
Answers ==
    {<<>>, <<[from_me |-> Some(0), datetime |-> Some(6)]>>}
    \cup {<<[from_me |-> Some(1), datetime |-> t]>> :
            t \in {None, Some(0), Some(6), Some(7), Some(86400)}}
ExchangeCells(answers) ==
    [i \in 1..(2 * Len(answers)) |->
        LET c == (i + 1) \div 2
            chat == Some(<<ToString(c)>> \o DirectMarker)
        IN IF i % 2 = 1
           THEN [chat_id |-> chat, from_me |-> Some(0), datetime |-> Some(0),
                 media_type |-> Some(0), message_text |-> None]
           ELSE IF answers[c] = <<>>
           THEN [chat_id |-> None, from_me |-> Some(1), datetime |-> Some(6),
                 media_type |-> Some(0), message_text |-> None]
           ELSE [chat_id |-> chat, from_me |-> answers[c][1].from_me,
                 datetime |-> answers[c][1].datetime,
                 media_type |-> Some(0), message_text |-> None]]

InitReplies ==
    /\ msgstore = <<>>
    /\ \E k \in 0..MaxExchanges :
          \E answers \in [1..k -> Answers] :
              messages_df = MakeTable(TableCols, ExchangeCells(answers))
    /\ messages = [loaded |-> TRUE, copied |-> TRUE,
                   cols |-> SecondsTable(messages_df).cols,
                   rows |-> SecondsTable(messages_df).rows]
    /\ contacts = NoTable
    /\ groups = NoTable
    /\ media = NoTable
    /\ lid_map = NoTable
    /\ last = NoCall
    /\ app = NoApp

CallResponseTimeAnalysis ==
    /\ messages.loaded
    /\ last' \in response_time_analysis_float64
    /\ UNCHANGED <<msgstore, messages_df, messages, contacts, groups, media, lid_map, app>>

SpecReplies == InitReplies /\ [][CallResponseTimeAnalysis]_vars

\* the pairs that survive: an inbound message and the outbound message next
\* after it in its chat, more than 0 and less than 86400 seconds later
SecondsFrom(i, j) == Val(Rows[j].datetime) - Val(Rows[i].datetime)
SurvivingPairs ==
    {x \in Indices(Rows) \X Indices(Rows) :
        /\ InboundThenOutbound(x[1], x[2]) /\ AdjacentInTime(x[1], x[2])
        /\ 0 < SecondsFrom(x[1], x[2]) /\ SecondsFrom(x[1], x[2]) < 86400}
Reported(key) == last.value[key]
\* n times the number a, and a * 2^k
RECURSIVE Times(_, _)
Times(a, n) == IF n = 1 THEN a ELSE ExactSum(Times(a, n - 1), a)
Scaled(a, k) == [m |-> a.m, e |-> a.e + k]
\* a <= b * (1 + n * 2^-52)
WithinRounding(a, b, n) == float64_leq(Scaled(a, 52), ExactSum(Scaled(b, 52), Times(b, n)))

-----------------------------------------------------------------------------
(* WhatsAppAnalyzerApp.run and the connections of its reader *)

\* database_reader.py lines 46-51: close() closes the connections that were
\* opened; closing a closed sqlite3 connection does nothing
close(a) ==
    [a EXCEPT !.msgstore_conn = IF @ = "None" THEN "None" ELSE "closed",
              !.wa_conn = IF @ = "None" THEN "None" ELSE "closed",
              !.close_calls = @ + 1]

\* main.py lines 129-137: an exception or a keyboard interrupt in the try
\* block makes run return False, after the finally block
Failed(a) == [a EXCEPT !.pc = "finally", !.result = "False"]

\* lines 57-58 and validate_files: without the message store file run returns
\* False at once; a wa.db path that leads nowhere is dropped
RunValidateFiles ==
    /\ app.pc = "start"
    /\ app' = IF ~app.msgstore_exists
              THEN [app EXCEPT !.pc = "done", !.result = "False"]
              ELSE [app EXCEPT !.pc = "connect", !.validated = TRUE,
                               !.wa_db_path = IF @ = "missing" THEN "None" ELSE @]
    /\ UNCHANGED <<msgstore, messages_df, messages, contacts, groups, media, lid_map, last>>

\* lines 64-65 and connect(): the reader is created and opens the message
\* store, then wa.db when its path is given; the message store can have gone
\* since it was looked for, and either sqlite3.connect can fail
RunConnect ==
    /\ app.pc = "connect"
    /\ \E outcome \in {"connected", "msgstore_gone", "msgstore_fails", "wa_fails"} :
          CASE outcome = "connected" ->
                 app' = [app EXCEPT !.pc = "read", !.reader = TRUE,
                                    !.msgstore_conn = "open",
                                    !.wa_conn = IF app.wa_db_path = "present"
                                                THEN "open" ELSE "None"]
            [] outcome = "msgstore_gone" ->
                 app' = Failed([app EXCEPT !.reader = TRUE, !.msgstore_exists = FALSE])
            [] outcome = "msgstore_fails" ->
                 app' = Failed([app EXCEPT !.reader = TRUE])
            [] outcome = "wa_fails" ->
                 /\ app.wa_db_path = "present"
                 /\ app' = Failed([app EXCEPT !.reader = TRUE, !.msgstore_conn = "open"])
    /\ UNCHANGED <<msgstore, messages_df, messages, contacts, groups, media, lid_map, last>>

\* a read that goes on with an empty table
RunRead_EmptyGoesOn ==
    /\ app.pc = "read"
    /\ \E df \in reader_get_messages(msgstore) \cup {EmptyFrame} :
          /\ messages_df' = df
          /\ app' = [app EXCEPT !.read = TRUE, !.pc = "construct"]
    /\ UNCHANGED <<msgstore, messages, contacts, groups, media, lid_map, last>>

\* lines 67-79: the message table is read, get_messages turning an error
\* into pd.DataFrame(); an empty table makes run return False
RunRead ==
    /\ app.pc = "read"
    /\ \E df \in reader_get_messages(msgstore) \cup {EmptyFrame} :
          /\ messages_df' = df
          /\ app' = IF Empty(df) THEN Failed([app EXCEPT !.read = TRUE])
                    ELSE [app EXCEPT !.read = TRUE, !.pc = "construct"]
    /\ UNCHANGED <<msgstore, messages, contacts, groups, media, lid_map, last>>

\* lines 86-94: the analyzer is constructed on the table
RunConstruct ==
    /\ app.pc = "construct"
    /\ messages' = AnalyzerInit(messages_df)
    /\ app' = [app EXCEPT !.pc = "statistics"]
    /\ UNCHANGED <<msgstore, messages_df, contacts, groups, media, lid_map, last>>

\* lines 97-103: the statistics are printed, unless the call raises
RunStatistics ==
    /\ app.pc = "statistics"
    /\ last' = get_general_statistics
    /\ app' = IF last'.raised # "" THEN Failed(app) ELSE [app EXCEPT !.pc = "report"]
    /\ UNCHANGED <<msgstore, messages_df, messages, contacts, groups, media, lid_map>>

\* lines 108-121: the report is written, unless generate_html_report raises;
\* the lines that print its path and size can raise after it
RunReport ==
    /\ app.pc = "report"
    /\ \E outcome \in {"written", "raises", "written_then_raises"} :
          app' = CASE outcome = "written" -> [app EXCEPT !.report = TRUE, !.pc = "close"]
                   [] outcome = "raises" -> Failed(app)
                   [] outcome = "written_then_raises" -> Failed([app EXCEPT !.report = TRUE])
    /\ UNCHANGED <<msgstore, messages_df, messages, contacts, groups, media, lid_map, last>>

\* lines 125-127: the reader is closed and run returns True
RunClose ==
    /\ app.pc = "close"
    /\ app' = [close(app) EXCEPT !.pc = "finally", !.result = "True"]
    /\ UNCHANGED <<msgstore, messages_df, messages, contacts, groups, media, lid_map, last>>

\* lines 129-131: a keyboard interrupt in the try block, the reader created
\* or not yet
RunInterrupted ==
    /\ app.pc \in {"connect", "read", "construct", "statistics", "report", "close"}
    /\ app' = Failed(app)
    /\ UNCHANGED <<msgstore, messages_df, messages, contacts, groups, media, lid_map, last>>

\* a finally block that leaves the reader as it is
RunFinally_Skipped ==
    /\ app.pc = "finally"
    /\ app' = [app EXCEPT !.pc = "done"]
    /\ UNCHANGED <<msgstore, messages_df, messages, contacts, groups, media, lid_map, last>>

\* lines 139-141: the finally block closes the reader if there is one, and
\* run returns
RunFinally ==
    /\ app.pc = "finally"
    /\ app' = [(IF app.reader THEN close(app) ELSE app) EXCEPT !.pc = "done"]
    /\ UNCHANGED <<msgstore, messages_df, messages, contacts, groups, media, lid_map, last>>

\* the application before run: the message store file is there or not, the
\* wa.db path is not given, leads nowhere, or leads to a file
InitRun ==
    /\ \E k \in 0..MaxRawMsgs :
          \E cells \in [1..k -> [chat_row_id : {0, 1}, from_me : {Some(0)},
                                 timestamp : {None, Some(0)}, message_type : {Some(0)},
                                 chat_jid : {Some(DirectJid)}]] :
              msgstore = MakeStore(cells)
    /\ messages_df = NoTable
    /\ messages = NoMessages
    /\ contacts = NoTable
    /\ groups = NoTable
    /\ media = NoTable
    /\ lid_map = NoTable
    /\ last = NoCall
    /\ \E exists \in BOOLEAN, path \in {"None", "missing", "present"} :
          app = [pc |-> "start", msgstore_exists |-> exists, wa_db_path |-> path,
                 validated |-> FALSE, reader |-> FALSE, msgstore_conn |-> "None",
                 wa_conn |-> "None", close_calls |-> 0, read |-> FALSE,
                 report |-> FALSE, result |-> "None"]

NextRun ==
    \/ RunValidateFiles \/ RunConnect \/ RunRead \/ RunConstruct \/ RunStatistics
    \/ RunReport \/ RunClose \/ RunInterrupted \/ RunFinally

SpecRun == InitRun /\ [][NextRun]_vars

Returned_(value) == app.pc = "done" /\ app.result = value

\* C29: the analyzer is constructed and the report generated only after the
\* message store file was found, the reader connected and a non-empty message
\* table read; when the table is empty (also when get_messages absorbed a read
\* error into an empty table) or the file is missing, run returns False and
\* no report is generated.
C29_ReportOnlyAfterRead ==
    /\ (messages.loaded \/ app.report) =>
          /\ app.validated /\ app.reader /\ app.msgstore_conn # "None"
          /\ app.read /\ ~Empty(messages_df)
    /\ app.report => messages.loaded
    /\ (app.pc = "done" /\ (~app.msgstore_exists \/ (app.read /\ Empty(messages_df)))) =>
          /\ app.result = "False"
          /\ ~app.report /\ ~messages.loaded
\* a read error on a store that holds a message: run has returned False
C29_Witness ==
    /\ Returned_("False") /\ app.read /\ messages_df = EmptyFrame
    /\ \E i \in 1..Len(msgstore) : msgstore[i].chat_row_id > 0
    /\ ~app.report /\ ~messages.loaded

\* C30: whenever run has returned and a reader was created, close() has been
\* called on it and no connection is left open, on every exit path (success,
\* empty table, exception in connect, read, analysis or report, keyboard
\* interrupt); close() is harmless when connect failed or opened one database
\* only, and on the success path it runs twice.
C30_ReaderClosed ==
    (app.pc = "done" /\ app.reader) =>
        /\ app.close_calls >= 1
        /\ app.msgstore_conn # "open" /\ app.wa_conn # "open"
        /\ app.result \in {"True", "False"}
        /\ app.result = "True" <=> (app.report /\ app.close_calls = 2)
        /\ app.result = "False" => app.close_calls = 1
\* the success path with only the message store opened: closed twice
C30_Witness ==
    /\ Returned_("True") /\ app.close_calls = 2
    /\ app.msgstore_conn = "closed" /\ app.wa_conn = "None"

====
